---- MODULE Spec2Model ----
(***************************************************************************)
(* Inventory ledger and transaction core of the business-management        *)
(* backend: stock rows, sales, sale items, sale returns and loyalty        *)
(* accounts kept in a PostgreSQL store (READ COMMITTED), and the service   *)
(* methods that read and write them.                                       *)
(*                                                                         *)
(* A service call is a process p: every awaited read is one step that sees *)
(* the committed store, and the writes of one prisma.$transaction (or one  *)
(* single write statement) take effect together in the step that commits.  *)
(* Relative writes ({increment: n}, {decrement: n}) are applied to the     *)
(* value stored at commit; absolute writes store the value the method      *)
(* computed from what it read earlier.                                     *)
(***************************************************************************)
EXTENDS Integers, Sequences, FiniteSets, TLC

VARIABLES
  stock,        \* stocks table: (productId, branchId) -> quantity, one row per key
  sales,        \* sales table: sequence of rows, row i has id i
  saleItems,    \* sale_items table: set of rows
  saleReturns,  \* sale_returns table: set of rows
  loyalty,      \* customer_loyalty table: customerId -> row
  purchases,    \* purchases table: sequence of rows, row i has id i
  purchaseItems,\* purchase_items table: set of rows
  inventoryLogs,      \* inventory_logs table: set of rows
  loyaltyTransactions,\* loyalty_transactions table: set of rows
  nextId,       \* SERIAL counters of sale_items, sale_returns, purchase_items,
                \* inventory_logs and loyalty_transactions
  lastPurchase, \* history: the purchase that was the last call to end, and the
                \* stock before it; the sale whose cancellation was the last call
                \* to end (NoPurchase after any other call)
  pc,           \* per call: the statement it is about to run
  req,          \* per call: the method, its arguments and its local variables
  res           \* per call: how the last call ended

vars == <<stock, sales, saleItems, saleReturns, loyalty, purchases, purchaseItems,
          inventoryLogs, loyaltyTransactions, nextId, lastPurchase, pc, req, res>>

dbSale == <<stock, sales, saleItems, saleReturns, nextId>>

dbPurchase == <<purchases, purchaseItems>>

dbLog == <<inventoryLogs, loyaltyTransactions>>

----------------------------------------------------------------------------
(* Bounds of the model *)

MaxStock == 5
MaxQty == 3
MaxSales == 2
MaxItems == 2
MaxSaleItems == 2
MaxReturns == 2
MaxPoints == 2
MaxTotal == 4
MaxPurchases == 2
MaxPurchaseItems == 2
MaxLogs == 2

Procs == {1, 2}
Products == {1, 2}
Branches == {1}
Customers == {1}
Invoices == {"INV-100", "INV-101"}
Prices == {10}
NoCustomer == 0

Quantities == 1 .. MaxQty

Key(productId, branchId) == <<productId, branchId>>

HasRow(st, k) == k \in DOMAIN st

(* stock?.quantity || 0 *)
Available(st, k) == IF HasRow(st, k) THEN st[k] ELSE 0

(* {quantity: {increment: n}} / {decrement: n} on an existing row *)
IncrementRow(st, k, n) == [st EXCEPT ![k] = @ + n]

DecrementRow(st, k, n) == [st EXCEPT ![k] = @ - n]

(* stock.upsert: update {increment: n} when the row exists, else create it *)
(* an upsert whose update branch stores the quantity instead of adding it *)
UpsertOverwriting(st, k, n) ==
  [x \in DOMAIN st \cup {k} |-> IF x = k THEN n ELSE st[x]]

UpsertIncrement(st, k, n) ==
  IF HasRow(st, k)
    THEN IncrementRow(st, k, n)
    ELSE [x \in DOMAIN st \cup {k} |-> IF x = k THEN n ELSE st[x]]

NoRequest == [op |-> "none"]
NoResult == [op |-> "none", outcome |-> "none"]
Outcome(op, o) == [op |-> op, outcome |-> o]

NoPurchase == [op |-> "none"]

(* the call returns or throws: its locals are gone, its result is r, and h is
   what the history keeps of it *)
FinishNoting(p, r, h) ==
  /\ pc' = [pc EXCEPT ![p] = "idle"]
  /\ req' = [req EXCEPT ![p] = NoRequest]
  /\ res' = [res EXCEPT ![p] = r]
  /\ lastPurchase' = h

Finish(p, r) == FinishNoting(p, r, NoPurchase)

(* the call goes on to statement l with locals rq *)
Goto(p, l, rq) ==
  /\ pc' = [pc EXCEPT ![p] = l]
  /\ req' = [req EXCEPT ![p] = rq]
  /\ res' = [res EXCEPT ![p] = NoResult]
  /\ lastPurchase' = lastPurchase

----------------------------------------------------------------------------
(* SaleService.create *)

(* requests naming products of prods in quantities of qtys, with at most n
   line items, an invoice number of invs and a customer of custs *)
SaleItemInputs(prods, qtys) ==
  { [productId |-> pr, quantity |-> q, unitPrice |-> u, total |-> q * u] :
      pr \in prods, q \in qtys, u \in Prices }

ItemLists(prods, qtys, n) ==
  UNION { [1 .. m -> SaleItemInputs(prods, qtys)] : m \in 1 .. n }

SaleInputs(prods, qtys, n, invs, custs) ==
  { [branchId |-> b, customerId |-> c, invoiceNo |-> inv,
     discount |-> 0, tax |-> 0, items |-> its] :
      b \in Branches, c \in custs, inv \in invs,
      its \in ItemLists(prods, qtys, n) }

(* the requests with each of the discounts and taxes *)
WithCharges(inputs, discounts, taxes) ==
  { [d EXCEPT !.discount = x, !.tax = y] : d \in inputs, x \in discounts, y \in taxes }

RECURSIVE ItemsTotal(_)
ItemsTotal(items) ==
  IF items = <<>> THEN 0 ELSE Head(items).total + ItemsTotal(Tail(items))

(* the row tx.sale.create stores; status takes the column default *)
NewSale(id, data) ==
  LET itemsTotal == ItemsTotal(data.items)
      grandTotal == itemsTotal - data.discount + data.tax
  IN [id |-> id, invoiceNo |-> data.invoiceNo, branchId |-> data.branchId,
      customerId |-> data.customerId, totalAmount |-> itemsTotal,
      discount |-> data.discount, tax |-> data.tax, grandTotal |-> grandTotal,
      paidAmount |-> grandTotal, dueAmount |-> 0, status |-> "completed"]

(* a persisted sale carries this invoice number *)
InvoiceTaken(ss, invoiceNo) == \E i \in 1 .. Len(ss) : ss[i].invoiceNo = invoiceNo

(* a store without the unique index on sales.invoice_no *)
NoInvoiceNoKey(ss, invoiceNo) == FALSE

(* unique index sales_invoice_no_key: the insert of a second row with this
   invoice number is rejected *)
SalesInvoiceNoKey(ss, invoiceNo) == InvoiceTaken(ss, invoiceNo)

(* a validation that also refuses a sale of the whole stock *)
InsufficientStockStrict(st, k, quantity) == ~HasRow(st, k) \/ st[k] <= quantity

(* if (!stock || stock.quantity < item.quantity) *)
InsufficientStock(st, k, quantity) == ~HasRow(st, k) \/ st[k] < quantity

(* the loop of tx.stock.update({decrement: item.quantity}) over data.items *)
RECURSIVE DecrementItems(_, _, _)
DecrementItems(st, branchId, items) ==
  IF items = <<>> THEN st
  ELSE DecrementItems(DecrementRow(st, Key(Head(items).productId, branchId),
                                   Head(items).quantity),
                      branchId, Tail(items))

ItemKeys(branchId, items) ==
  { Key(items[i].productId, branchId) : i \in 1 .. Len(items) }

(* BadRequestException(`Insufficient stock ... Available: a, Requested: r`) *)
InsufficientStockError(op, line, productId, available, requested) ==
  [op |-> op, outcome |-> "insufficientStock", line |-> line,
   productId |-> productId, available |-> available, requested |-> requested]

SaleCreateBegin(p, data) ==
  /\ pc[p] = "idle"
  /\ Len(sales) < MaxSales
  /\ Goto(p, "saleCheck", [op |-> "saleCreate", data |-> data, i |-> 1])
  /\ UNCHANGED <<dbSale, loyalty, dbPurchase, dbLog>>

(* a validation loop that takes the stock of each line item as it passes *)
SaleCheckItemTakingStock(p) ==
  /\ pc[p] = "saleCheck"
  /\ LET d == req[p].data
         item == d.items[req[p].i]
         k == Key(item.productId, d.branchId)
     IN IF InsufficientStock(stock, k, item.quantity)
          THEN /\ Finish(p, InsufficientStockError("saleCreate", req[p].i, item.productId,
                                                   Available(stock, k), item.quantity))
               /\ stock' = stock
          ELSE /\ Goto(p, IF req[p].i = Len(d.items) THEN "saleWrite" ELSE "saleCheck",
                       [req[p] EXCEPT !.i = @ + 1])
               /\ stock' = DecrementRow(stock, k, item.quantity)
  /\ UNCHANGED <<sales, saleItems, saleReturns, nextId, loyalty, dbPurchase, dbLog>>

(* one iteration of the stock availability loop *)
SaleCheckItem(p) ==
  /\ pc[p] = "saleCheck"
  /\ LET d == req[p].data
         item == d.items[req[p].i]
         k == Key(item.productId, d.branchId)
     IN IF InsufficientStock(stock, k, item.quantity)
          THEN Finish(p, InsufficientStockError("saleCreate", req[p].i, item.productId,
                                                Available(stock, k), item.quantity))
          ELSE Goto(p, IF req[p].i = Len(d.items) THEN "saleWrite" ELSE "saleCheck",
                    [req[p] EXCEPT !.i = @ + 1])
  /\ UNCHANGED <<dbSale, loyalty, dbPurchase, dbLog>>

(* tx.sale.create, the tx.stock.update loop, and the commit *)
SaleWrite(p) ==
  /\ pc[p] = "saleWrite"
  /\ LET d == req[p].data
     IN IF SalesInvoiceNoKey(sales, d.invoiceNo)
          THEN Finish(p, Outcome("saleCreate", "P2002")) /\ UNCHANGED dbSale
          ELSE IF ItemKeys(d.branchId, d.items) \subseteq DOMAIN stock
            THEN /\ sales' = Append(sales, NewSale(Len(sales) + 1, d))
                 /\ stock' = DecrementItems(stock, d.branchId, d.items)
                 /\ Finish(p, [op |-> "saleCreate", outcome |-> "ok",
                               id |-> Len(sales) + 1])
                 /\ UNCHANGED <<saleItems, saleReturns, nextId>>
            ELSE Finish(p, Outcome("saleCreate", "P2025")) /\ UNCHANGED dbSale
  /\ UNCHANGED <<loyalty, dbPurchase, dbLog>>

----------------------------------------------------------------------------
(* StockService.increment, StockService.decrement *)

StockInputs(prods, qtys) ==
  { [productId |-> pr, branchId |-> b, quantity |-> q] :
      pr \in prods, b \in Branches, q \in qtys }

StockIncrement(p, data) ==
  LET k == Key(data.productId, data.branchId)
  IN /\ pc[p] = "idle"
     /\ Available(stock, k) + data.quantity <= MaxStock
     /\ stock' = UpsertIncrement(stock, k, data.quantity)
     /\ Finish(p, Outcome("stockIncrement", "ok"))
     /\ UNCHANGED <<sales, saleItems, saleReturns, nextId, loyalty, dbPurchase, dbLog>>

(* the findUnique and the two guards of decrement *)
StockDecrementFind(p, data) ==
  LET k == Key(data.productId, data.branchId)
  IN /\ pc[p] = "idle"
     /\ IF ~HasRow(stock, k) THEN Finish(p, Outcome("stockDecrement", "notFound"))
        ELSE IF stock[k] < data.quantity
          THEN Finish(p, Outcome("stockDecrement", "insufficientStock"))
        ELSE Goto(p, "decrementUpdate", [op |-> "stockDecrement", data |-> data])
     /\ UNCHANGED <<dbSale, loyalty, dbPurchase, dbLog>>

StockDecrementUpdate(p) ==
  LET data == req[p].data
      k == Key(data.productId, data.branchId)
  IN /\ pc[p] = "decrementUpdate"
     /\ IF HasRow(stock, k)
          THEN /\ stock' = DecrementRow(stock, k, data.quantity)
               /\ Finish(p, Outcome("stockDecrement", "ok"))
          ELSE /\ stock' = stock
               /\ Finish(p, Outcome("stockDecrement", "P2025"))
     /\ UNCHANGED <<sales, saleItems, saleReturns, nextId, loyalty, dbPurchase, dbLog>>

----------------------------------------------------------------------------
(* SaleService.addItemToSale *)

AddItemInputs(prods, qtys) ==
  { [productId |-> pr, quantity |-> q, unitPrice |-> u] :
      pr \in prods, q \in qtys, u \in Prices }

SaleIds == 1 .. MaxSales

(* prisma.sale.findUnique, outside the transaction *)
AddItemFindSale(p, saleId, data) ==
  /\ pc[p] = "idle"
  /\ nextId.saleItem <= MaxSaleItems
  /\ IF saleId \in 1 .. Len(sales)
       THEN Goto(p, "addItemCheck",
                 [op |-> "addItemToSale", saleId |-> saleId, data |-> data,
                  sale |-> sales[saleId]])
       ELSE Finish(p, Outcome("addItemToSale", "notFound"))
  /\ UNCHANGED <<dbSale, loyalty, dbPurchase, dbLog>>

(* prisma.stock.findUnique and the availability guard, outside the transaction *)
AddItemCheckStock(p) ==
  /\ pc[p] = "addItemCheck"
  /\ LET data == req[p].data
         k == Key(data.productId, req[p].sale.branchId)
     IN IF InsufficientStock(stock, k, data.quantity)
          THEN Finish(p, InsufficientStockError("addItemToSale", 1, data.productId,
                                                Available(stock, k), data.quantity))
          ELSE Goto(p, "addItemWrite", req[p])
  /\ UNCHANGED <<dbSale, loyalty, dbPurchase, dbLog>>

(* sale totals that leave dueAmount as it was read *)
SaleWithTotalKeepingDue(sale, newTotalAmount) ==
  [totalAmount |-> newTotalAmount,
   grandTotal |-> newTotalAmount - sale.discount + sale.tax,
   dueAmount |-> sale.dueAmount]

(* sale totals re-derived from the sale row read before the transaction *)
SaleWithTotal(sale, newTotalAmount) ==
  LET newGrandTotal == newTotalAmount - sale.discount + sale.tax
  IN [totalAmount |-> newTotalAmount, grandTotal |-> newGrandTotal,
      dueAmount |-> newGrandTotal - sale.paidAmount]

(* tx.sale.update({totalAmount, grandTotal, dueAmount}) *)
UpdateSaleTotals(ss, saleId, t) ==
  [ss EXCEPT ![saleId].totalAmount = t.totalAmount,
             ![saleId].grandTotal = t.grandTotal,
             ![saleId].dueAmount = t.dueAmount]

(* the transaction: saleItem.create, sale.update, stock.update({decrement}) *)
AddItemWrite(p) ==
  /\ pc[p] = "addItemWrite"
  /\ LET data == req[p].data
         sale == req[p].sale
         k == Key(data.productId, sale.branchId)
         subtotal == data.unitPrice * data.quantity
         item == [id |-> nextId.saleItem, saleId |-> req[p].saleId,
                  productId |-> data.productId, quantity |-> data.quantity,
                  unitPrice |-> data.unitPrice, subtotal |-> subtotal]
     IN IF HasRow(stock, k)
          THEN /\ saleItems' = saleItems \cup {item}
               /\ nextId' = [nextId EXCEPT !.saleItem = @ + 1]
               /\ sales' = UpdateSaleTotals(sales, req[p].saleId,
                                            SaleWithTotal(sale, sale.totalAmount + subtotal))
               /\ stock' = DecrementRow(stock, k, data.quantity)
               /\ Finish(p, [op |-> "addItemToSale", outcome |-> "ok", id |-> item.id])
               /\ UNCHANGED saleReturns
          ELSE Finish(p, Outcome("addItemToSale", "P2025")) /\ UNCHANGED dbSale
  /\ UNCHANGED <<loyalty, dbPurchase, dbLog>>

----------------------------------------------------------------------------
(* SaleReturnService.create, update, updateStatus, remove *)

Absent == 0 - 1

ReturnStatuses == {"pending", "approved", "rejected"}

RefundAmounts == {10, 25}

ReturnInputs(prods) ==
  { [saleId |-> sid, productId |-> pr, quantity |-> q, refundAmount |-> a] :
      sid \in SaleIds, pr \in prods, q \in Quantities, a \in RefundAmounts }

(* UpdateSaleReturnDto: quantity and refundAmount are optional *)
ReturnUpdateInputs(qtys, amounts) ==
  { [quantity |-> q, refundAmount |-> a, status |-> "absent"] :
      q \in {Absent} \cup qtys, a \in {Absent} \cup amounts }

(* updateStatus writes {status, processedById} *)
ReturnStatusInputs ==
  { [quantity |-> Absent, refundAmount |-> Absent, status |-> st] :
      st \in ReturnStatuses }

NoData == [quantity |-> Absent, refundAmount |-> Absent, status |-> "absent"]

ItemsOfSale(saleId) == { it \in saleItems : it.saleId = saleId }

(* Number(saleItem.unitPrice) * data.quantity *)
MaxRefund(saleItem, quantity) == saleItem.unitPrice * quantity

(* the guards of create, on the line item sale.saleItems.find picked *)
ReturnGuard(saleItem, data) ==
  IF data.quantity > saleItem.quantity THEN "exceedsSoldQuantity"
  ELSE IF data.refundAmount > MaxRefund(saleItem, data.quantity) THEN "exceedsMaxRefund"
  ELSE "ok"

(* tx.sale.findUnique({include: saleItems}) and the guards.  The rows of
   sale.saleItems come in no stated order, so find() may pick any line item
   of the product. *)
ReturnCreateCheck(p, data) ==
  /\ pc[p] = "idle"
  /\ nextId.saleReturn <= MaxReturns
  /\ \A b \in Branches :
       Available(stock, Key(data.productId, b)) + data.quantity <= MaxStock
  /\ IF data.saleId \notin 1 .. Len(sales)
       THEN Finish(p, Outcome("returnCreate", "notFound"))
       ELSE LET found == { it \in ItemsOfSale(data.saleId) : it.productId = data.productId }
            IN IF found = {}
                 THEN Finish(p, Outcome("returnCreate", "productNotInSale"))
                 ELSE \E saleItem \in found :
                        IF ReturnGuard(saleItem, data) = "ok"
                          THEN Goto(p, "returnWrite",
                                    [op |-> "returnCreate", data |-> data,
                                     branchId |-> sales[data.saleId].branchId])
                          ELSE Finish(p, Outcome("returnCreate",
                                                 ReturnGuard(saleItem, data)))
  /\ UNCHANGED <<dbSale, loyalty, dbPurchase, dbLog>>

(* tx.saleReturn.create, tx.stock.upsert({increment}) and the commit *)
ReturnCreateWrite(p) ==
  /\ pc[p] = "returnWrite"
  /\ LET data == req[p].data
         row == [id |-> nextId.saleReturn, saleId |-> data.saleId,
                 productId |-> data.productId, quantity |-> data.quantity,
                 refundAmount |-> data.refundAmount, status |-> "pending"]
     IN /\ saleReturns' = saleReturns \cup {row}
        /\ nextId' = [nextId EXCEPT !.saleReturn = @ + 1]
        /\ stock' = UpsertIncrement(stock, Key(data.productId, req[p].branchId),
                                    data.quantity)
        /\ Finish(p, [op |-> "returnCreate", outcome |-> "ok", id |-> row.id])
  /\ UNCHANGED <<sales, saleItems, loyalty, dbPurchase, dbLog>>

ReturnIds == 1 .. MaxReturns

(* sale.saleReturns.filter(ret => ret.productId === productId)
       .reduce((sum, ret) => sum + ret.quantity, 0) *)
RECURSIVE AlreadyReturned(_)
AlreadyReturned(rows) ==
  IF rows = {} THEN 0
  ELSE LET r == CHOOSE x \in rows : TRUE
       IN r.quantity + AlreadyReturned(rows \ {r})

(* validateReturn: prisma.sale.findUnique({include: saleItems, saleReturns})
   and the values it derives; it reads in one statement and writes nothing *)
ValidateReturn(p, saleId, productId, quantity) ==
  /\ pc[p] = "idle"
  /\ IF saleId \notin 1 .. Len(sales)
       THEN Finish(p, Outcome("validateReturn", "notFound"))
       ELSE LET found == { it \in ItemsOfSale(saleId) : it.productId = productId }
                alreadyReturned ==
                  AlreadyReturned({ r \in saleReturns :
                                      r.saleId = saleId /\ r.productId = productId })
            IN IF found = {}
                 THEN Finish(p, Outcome("validateReturn", "productNotInSale"))
                 ELSE \E saleItem \in found :
                        Finish(p, [op |-> "validateReturn", outcome |-> "ok",
                                   saleId |-> saleId, productId |-> productId,
                                   quantity |-> quantity,
                                   isValid |-> quantity <= saleItem.quantity - alreadyReturned,
                                   availableToReturn |-> saleItem.quantity - alreadyReturned,
                                   alreadyReturned |-> alreadyReturned,
                                   soldQuantity |-> saleItem.quantity])
  /\ UNCHANGED <<dbSale, loyalty, dbPurchase, dbLog>>

ReturnById(id) == { r \in saleReturns : r.id = id }

(* prisma.saleReturn.findUnique at the head of update, updateStatus, remove *)
ReturnFind(p, op, id, data) ==
  /\ pc[p] = "idle"
  /\ IF ReturnById(id) = {}
       THEN Finish(p, Outcome(op, "notFound"))
       ELSE Goto(p, op, [op |-> op, id |-> id, data |-> data])
  /\ UNCHANGED <<dbSale, loyalty, dbPurchase, dbLog>>

(* saleReturn.update({where: {id}, data}): the fields data carries *)
PatchReturn(r, data) ==
  [r EXCEPT !.quantity = IF data.quantity = Absent THEN @ ELSE data.quantity,
            !.refundAmount = IF data.refundAmount = Absent THEN @ ELSE data.refundAmount,
            !.status = IF data.status = "absent" THEN @ ELSE data.status]

(* prisma.saleReturn.update of update and of updateStatus *)
ReturnUpdateWrite(p) ==
  /\ pc[p] \in {"returnUpdate", "returnUpdateStatus"}
  /\ IF ReturnById(req[p].id) = {}
       THEN Finish(p, Outcome(req[p].op, "P2025")) /\ UNCHANGED saleReturns
       ELSE /\ saleReturns' = { IF r.id = req[p].id THEN PatchReturn(r, req[p].data) ELSE r :
                                  r \in saleReturns }
            /\ Finish(p, [op |-> req[p].op, outcome |-> "ok", id |-> req[p].id])
  /\ UNCHANGED <<stock, sales, saleItems, nextId, loyalty, dbPurchase, dbLog>>

(* the transaction of remove: tx.saleReturn.delete; the stock reversal is
   commented out in the source *)
ReturnRemoveWrite(p) ==
  /\ pc[p] = "returnRemove"
  /\ IF ReturnById(req[p].id) = {}
       THEN Finish(p, Outcome("returnRemove", "P2025")) /\ UNCHANGED saleReturns
       ELSE /\ saleReturns' = saleReturns \ ReturnById(req[p].id)
            /\ Finish(p, [op |-> "returnRemove", outcome |-> "ok", id |-> req[p].id])
  /\ UNCHANGED <<stock, sales, saleItems, nextId, loyalty, dbPurchase, dbLog>>

----------------------------------------------------------------------------
(* CustomerLoyaltyService *)

(* ids a request may name: the customer of the customers table and one that
   is not in it *)
CustomerIds == Customers \cup {2}

PointInputs == 0 .. MaxPoints
AdjustInputs == (0 - MaxPoints) .. MaxPoints

HasAccount(lo, customerId) == customerId \in DOMAIN lo

(* customerLoyalty.create({pointsBalance: 0, totalEarned: 0, totalRedeemed: 0}) *)
NewLoyalty == [pointsBalance |-> 0, totalEarned |-> 0, totalRedeemed |-> 0]

CreateAccount(lo, customerId) ==
  [x \in DOMAIN lo \cup {customerId} |-> IF x = customerId THEN NewLoyalty ELSE lo[x]]

(* {pointsBalance: {increment: points}, totalEarned: {increment: points}} *)
EarnRow(row, points) ==
  [row EXCEPT !.pointsBalance = @ + points, !.totalEarned = @ + points]

(* {pointsBalance: {decrement: points}, totalRedeemed: {increment: points}} *)
RedeemRow(row, points) ==
  [row EXCEPT !.pointsBalance = @ - points, !.totalRedeemed = @ + points]

(* {pointsBalance: newBalance, totalEarned: {increment: points}          if points > 0,
                               totalRedeemed: {increment: abs(points)}   if points < 0} *)
AdjustRow(row, newBalance, points) ==
  [row EXCEPT !.pointsBalance = newBalance,
              !.totalEarned = IF points > 0 THEN @ + points ELSE @,
              !.totalRedeemed = IF points < 0 THEN @ + (0 - points) ELSE @]

(* a reset that drops the balance without moving it to totalRedeemed *)
ResetRowDroppingBalance(row, balance) == [row EXCEPT !.pointsBalance = 0]

(* {pointsBalance: 0, totalRedeemed: {increment: loyalty.pointsBalance}} *)
ResetRow(row, balance) ==
  [row EXCEPT !.pointsBalance = 0, !.totalRedeemed = @ + balance]

(* a check that also refuses to redeem the whole balance *)
InsufficientPointsStrict(row, points) == row.pointsBalance <= points

(* if (loyalty.pointsBalance < points) *)
InsufficientPoints(row, points) == row.pointsBalance < points

(* a tenth of the amount, rounded up *)
CalculatePointsRoundingUp(saleAmount) == (saleAmount + 9) \div 10

(* Math.floor(saleAmount * 0.1), on amounts >= 0 *)
CalculatePointsFromSale(saleAmount) == saleAmount \div 10

(* the totals of the account stay within MaxTotal after the call *)
WithinTotals(customerId, earned, redeemed) ==
  HasAccount(loyalty, customerId) =>
    /\ loyalty[customerId].totalEarned + earned <= MaxTotal
    /\ loyalty[customerId].totalRedeemed + redeemed <= MaxTotal

LoyaltyRequest(op, customerId, points) ==
  [op |-> op, customerId |-> customerId, points |-> points]

(* customer.findUnique and customerLoyalty.findUnique of initialize *)
InitializeFind(p, customerId) ==
  /\ pc[p] = "idle"
  /\ IF customerId \notin Customers
       THEN Finish(p, Outcome("initialize", "notFound"))
       ELSE IF HasAccount(loyalty, customerId)
         THEN Finish(p, Outcome("initialize", "alreadyExists"))
         ELSE Goto(p, "initializeCreate", LoyaltyRequest("initialize", customerId, 0))
  /\ UNCHANGED <<dbSale, loyalty, dbPurchase, dbLog>>

(* customerLoyalty.create; unique index customer_loyalty_customer_id_key *)
InitializeCreate(p) ==
  /\ pc[p] = "initializeCreate"
  /\ IF HasAccount(loyalty, req[p].customerId)
       THEN Finish(p, Outcome("initialize", "P2002")) /\ UNCHANGED <<loyalty, dbPurchase>>
       ELSE /\ loyalty' = CreateAccount(loyalty, req[p].customerId)
            /\ Finish(p, Outcome("initialize", "ok"))
  /\ UNCHANGED <<dbSale, dbPurchase, dbLog>>

(* if (points <= 0) throw, else prisma.$transaction begins *)
AddPointsBegin(p, customerId, points) ==
  /\ pc[p] = "idle"
  /\ WithinTotals(customerId, points, 0)
  /\ IF points <= 0
       THEN Finish(p, Outcome("addPoints", "invalidPoints"))
       ELSE Goto(p, "addPointsFind", LoyaltyRequest("addPoints", customerId, points))
  /\ UNCHANGED <<dbSale, loyalty, dbPurchase, dbLog>>

AddPointsFind(p) ==
  /\ pc[p] = "addPointsFind"
  /\ IF HasAccount(loyalty, req[p].customerId)
       THEN Goto(p, "addPointsWrite", req[p])
       ELSE Finish(p, Outcome("addPoints", "notFound"))
  /\ UNCHANGED <<dbSale, loyalty, dbPurchase, dbLog>>

AddPointsWrite(p) ==
  /\ pc[p] = "addPointsWrite"
  /\ loyalty' = [loyalty EXCEPT ![req[p].customerId] = EarnRow(@, req[p].points)]
  /\ Finish(p, Outcome("addPoints", "ok"))
  /\ UNCHANGED <<dbSale, dbPurchase, dbLog>>

RedeemPointsBegin(p, customerId, points) ==
  /\ pc[p] = "idle"
  /\ WithinTotals(customerId, 0, points)
  /\ IF points <= 0
       THEN Finish(p, Outcome("redeemPoints", "invalidPoints"))
       ELSE Goto(p, "redeemPointsFind", LoyaltyRequest("redeemPoints", customerId, points))
  /\ UNCHANGED <<dbSale, loyalty, dbPurchase, dbLog>>

(* tx.customerLoyalty.findUnique and the balance check *)
RedeemPointsFind(p) ==
  /\ pc[p] = "redeemPointsFind"
  /\ IF ~HasAccount(loyalty, req[p].customerId)
       THEN Finish(p, Outcome("redeemPoints", "notFound"))
       ELSE IF InsufficientPoints(loyalty[req[p].customerId], req[p].points)
         THEN Finish(p, Outcome("redeemPoints", "insufficientPoints"))
         ELSE Goto(p, "redeemPointsWrite", req[p])
  /\ UNCHANGED <<dbSale, loyalty, dbPurchase, dbLog>>

RedeemPointsWrite(p) ==
  /\ pc[p] = "redeemPointsWrite"
  /\ loyalty' = [loyalty EXCEPT ![req[p].customerId] = RedeemRow(@, req[p].points)]
  /\ Finish(p, Outcome("redeemPoints", "ok"))
  /\ UNCHANGED <<dbSale, dbPurchase, dbLog>>

(* tx.customerLoyalty.findUnique and newBalance = loyalty.pointsBalance + points *)
AdjustPointsFind(p, customerId, points) ==
  /\ pc[p] = "idle"
  /\ WithinTotals(customerId, IF points > 0 THEN points ELSE 0,
                  IF points < 0 THEN 0 - points ELSE 0)
  /\ IF HasAccount(loyalty, customerId)
       THEN Goto(p, "adjustPointsWrite",
                 [op |-> "adjustPoints", customerId |-> customerId, points |-> points,
                  newBalance |-> loyalty[customerId].pointsBalance + points])
       ELSE Finish(p, Outcome("adjustPoints", "notFound"))
  /\ UNCHANGED <<dbSale, loyalty, dbPurchase, dbLog>>

AdjustPointsWrite(p) ==
  /\ pc[p] = "adjustPointsWrite"
  /\ loyalty' = [loyalty EXCEPT ![req[p].customerId] =
                   AdjustRow(@, req[p].newBalance, req[p].points)]
  /\ Finish(p, Outcome("adjustPoints", "ok"))
  /\ UNCHANGED <<dbSale, dbPurchase, dbLog>>

(* tx.sale.findUnique of processSalePoints *)
ProcessSalePointsFindSale(p, saleId) ==
  /\ pc[p] = "idle"
  /\ IF saleId \notin 1 .. Len(sales) \/ sales[saleId].customerId = NoCustomer
       THEN Finish(p, Outcome("processSalePoints", "notFound"))
       ELSE /\ WithinTotals(sales[saleId].customerId,
                            CalculatePointsFromSale(sales[saleId].grandTotal), 0)
            /\ Goto(p, "processSalePointsFindLoyalty",
                    [op |-> "processSalePoints", customerId |-> sales[saleId].customerId,
                     grandTotal |-> sales[saleId].grandTotal, exists |-> FALSE])
  /\ UNCHANGED <<dbSale, loyalty, dbPurchase, dbLog>>

(* tx.customerLoyalty.findUnique of processSalePoints *)
ProcessSalePointsFindLoyalty(p) ==
  /\ pc[p] = "processSalePointsFindLoyalty"
  /\ Goto(p, "processSalePointsWrite",
          [req[p] EXCEPT !.exists = HasAccount(loyalty, req[p].customerId)])
  /\ UNCHANGED <<dbSale, loyalty, dbPurchase, dbLog>>

(* tx.customerLoyalty.create when no account was found, the update when
   pointsEarned > 0, and the commit *)
ProcessSalePointsWrite(p) ==
  /\ pc[p] = "processSalePointsWrite"
  /\ LET customerId == req[p].customerId
         pointsEarned == CalculatePointsFromSale(req[p].grandTotal)
         accounts == IF req[p].exists THEN loyalty ELSE CreateAccount(loyalty, customerId)
     IN IF ~req[p].exists /\ HasAccount(loyalty, customerId)
          THEN Finish(p, Outcome("processSalePoints", "P2002")) /\ UNCHANGED <<loyalty, dbPurchase>>
          ELSE /\ loyalty' = IF pointsEarned > 0
                               THEN [accounts EXCEPT ![customerId] = EarnRow(@, pointsEarned)]
                               ELSE accounts
               /\ Finish(p, [op |-> "processSalePoints", outcome |-> "ok",
                             pointsEarned |-> pointsEarned])
  /\ UNCHANGED <<dbSale, dbPurchase, dbLog>>

(* tx.customerLoyalty.findUnique of resetAccount *)
ResetAccountFind(p, customerId) ==
  /\ pc[p] = "idle"
  /\ IF HasAccount(loyalty, customerId)
       THEN /\ WithinTotals(customerId, 0, loyalty[customerId].pointsBalance)
            /\ Goto(p, "resetAccountWrite",
                    [op |-> "resetAccount", customerId |-> customerId,
                     balance |-> loyalty[customerId].pointsBalance])
       ELSE Finish(p, Outcome("resetAccount", "notFound"))
  /\ UNCHANGED <<dbSale, loyalty, dbPurchase, dbLog>>

ResetAccountWrite(p) ==
  /\ pc[p] = "resetAccountWrite"
  /\ loyalty' = [loyalty EXCEPT ![req[p].customerId] = ResetRow(@, req[p].balance)]
  /\ Finish(p, Outcome("resetAccount", "ok"))
  /\ UNCHANGED <<dbSale, dbPurchase, dbLog>>

----------------------------------------------------------------------------
(* PurchaseService.create, addItemToPurchase, removeItemFromPurchase and
   PurchaseItemService.create *)

Costs == {10}

PurchaseIds == 1 .. MaxPurchases

PurchaseItemIds == 1 .. MaxPurchaseItems

PurchaseItemInputs(prods, qtys) ==
  { [productId |-> pr, quantity |-> q, unitCost |-> c, total |-> q * c] :
      pr \in prods, q \in qtys, c \in Costs }

PurchaseItemLists(prods, qtys, n) ==
  UNION { [1 .. m -> PurchaseItemInputs(prods, qtys)] : m \in 1 .. n }

PurchaseInputs(prods, qtys, n, invs) ==
  { [branchId |-> b, invoiceNo |-> inv, discount |-> 0, tax |-> 0, items |-> its] :
      b \in Branches, inv \in invs, its \in PurchaseItemLists(prods, qtys, n) }

(* the row tx.purchase.create stores; status takes the column default *)
NewPurchase(id, data) ==
  LET itemsTotal == ItemsTotal(data.items)
      grandTotal == itemsTotal - data.discount + data.tax
  IN [id |-> id, invoiceNo |-> data.invoiceNo, branchId |-> data.branchId,
      totalAmount |-> itemsTotal, discount |-> data.discount, tax |-> data.tax,
      grandTotal |-> grandTotal, status |-> "pending"]

(* unique index purchases_invoice_no_key *)
PurchasesInvoiceNoKey(ps, invoiceNo) ==
  \E i \in 1 .. Len(ps) : ps[i].invoiceNo = invoiceNo

(* the loop of tx.stock.upsert({increment: item.quantity}) over data.items *)
RECURSIVE IncrementItems(_, _, _)
IncrementItems(st, branchId, items) ==
  IF items = <<>> THEN st
  ELSE IncrementItems(UpsertIncrement(st, Key(Head(items).productId, branchId),
                                      Head(items).quantity),
                      branchId, Tail(items))

WithinMaxStock(st) == \A k \in DOMAIN st : st[k] <= MaxStock

(* the transaction of create: tx.purchase.create, the stock upserts, commit *)
PurchaseCreate(p, data) ==
  /\ pc[p] = "idle"
  /\ Len(purchases) < MaxPurchases
  /\ WithinMaxStock(IncrementItems(stock, data.branchId, data.items))
  /\ IF PurchasesInvoiceNoKey(purchases, data.invoiceNo)
       THEN /\ Finish(p, Outcome("purchaseCreate", "P2002"))
            /\ UNCHANGED <<stock, purchases>>
       ELSE /\ purchases' = Append(purchases, NewPurchase(Len(purchases) + 1, data))
            /\ stock' = IncrementItems(stock, data.branchId, data.items)
            /\ FinishNoting(p, [op |-> "purchaseCreate", outcome |-> "ok",
                                id |-> Len(purchases) + 1],
                            [op |-> "purchaseCreate", branchId |-> data.branchId,
                             items |-> data.items, before |-> stock])
  /\ UNCHANGED <<sales, saleItems, saleReturns, nextId, loyalty, purchaseItems, dbLog>>

AddPurchaseItemInputs(prods, qtys) ==
  { [productId |-> pr, quantity |-> q, unitCost |-> c] :
      pr \in prods, q \in qtys, c \in Costs }

(* prisma.purchase.findUnique, outside the transaction *)
AddItemToPurchaseFind(p, purchaseId, data) ==
  /\ pc[p] = "idle"
  /\ nextId.purchaseItem <= MaxPurchaseItems
  /\ \A b \in Branches :
       Available(stock, Key(data.productId, b)) + data.quantity <= MaxStock
  /\ IF purchaseId \in 1 .. Len(purchases)
       THEN Goto(p, "addPurchaseItemWrite",
                 [op |-> "addItemToPurchase", purchaseId |-> purchaseId, data |-> data,
                  purchase |-> purchases[purchaseId]])
       ELSE Finish(p, Outcome("addItemToPurchase", "notFound"))
  /\ UNCHANGED <<dbSale, loyalty, dbPurchase, dbLog>>

(* purchase totals re-derived from the purchase row read before the transaction *)
PurchaseWithTotal(purchase, newTotalAmount) ==
  [totalAmount |-> newTotalAmount,
   grandTotal |-> newTotalAmount - purchase.discount + purchase.tax]

(* tx.purchase.update({totalAmount, grandTotal}) *)
UpdatePurchaseTotals(ps, purchaseId, t) ==
  [ps EXCEPT ![purchaseId].totalAmount = t.totalAmount,
             ![purchaseId].grandTotal = t.grandTotal]

(* the transaction: purchaseItem.create, purchase.update, stock.upsert *)
AddItemToPurchaseWrite(p) ==
  /\ pc[p] = "addPurchaseItemWrite"
  /\ LET data == req[p].data
         purchase == req[p].purchase
         subtotal == data.unitCost * data.quantity
         item == [id |-> nextId.purchaseItem, purchaseId |-> req[p].purchaseId,
                  productId |-> data.productId, quantity |-> data.quantity,
                  unitCost |-> data.unitCost, subtotal |-> subtotal]
     IN /\ purchaseItems' = purchaseItems \cup {item}
        /\ nextId' = [nextId EXCEPT !.purchaseItem = @ + 1]
        /\ purchases' = UpdatePurchaseTotals(purchases, req[p].purchaseId,
                          PurchaseWithTotal(purchase, purchase.totalAmount + subtotal))
        /\ stock' = UpsertIncrement(stock, Key(data.productId, purchase.branchId),
                                    data.quantity)
        /\ Finish(p, [op |-> "addItemToPurchase", outcome |-> "ok", id |-> item.id])
  /\ UNCHANGED <<sales, saleItems, saleReturns, loyalty, dbLog>>

PurchaseItemById(id) == { it \in purchaseItems : it.id = id }

(* prisma.purchase.findUnique of removeItemFromPurchase *)
RemoveItemFromPurchaseFind(p, purchaseId, itemId) ==
  /\ pc[p] = "idle"
  /\ IF purchaseId \in 1 .. Len(purchases)
       THEN Goto(p, "removePurchaseItemFindItem",
                 [op |-> "removeItemFromPurchase", purchaseId |-> purchaseId,
                  itemId |-> itemId, purchase |-> purchases[purchaseId]])
       ELSE Finish(p, Outcome("removeItemFromPurchase", "notFound"))
  /\ UNCHANGED <<dbSale, loyalty, dbPurchase, dbLog>>

(* prisma.purchaseItem.findUnique and the guard on its purchaseId *)
RemoveItemFromPurchaseFindItem(p) ==
  /\ pc[p] = "removePurchaseItemFindItem"
  /\ LET found == { it \in PurchaseItemById(req[p].itemId) :
                      it.purchaseId = req[p].purchaseId }
     IN IF found = {}
          THEN Finish(p, Outcome("removeItemFromPurchase", "notFound"))
          ELSE \E purchaseItem \in found :
                 Goto(p, "removePurchaseItemWrite",
                      [op |-> "removeItemFromPurchase", purchaseId |-> req[p].purchaseId,
                       itemId |-> req[p].itemId, purchase |-> req[p].purchase,
                       purchaseItem |-> purchaseItem])
  /\ UNCHANGED <<dbSale, loyalty, dbPurchase, dbLog>>

(* a removal whose item delete and header update outlive the failure of the
   stock update *)
RemoveItemFromPurchaseWriteKeepingPartial(p) ==
  /\ pc[p] = "removePurchaseItemWrite"
  /\ LET purchase == req[p].purchase
         purchaseItem == req[p].purchaseItem
         k == Key(purchaseItem.productId, purchase.branchId)
     IN /\ purchaseItems' = purchaseItems \ PurchaseItemById(req[p].itemId)
        /\ purchases' = UpdatePurchaseTotals(purchases, req[p].purchaseId,
                          PurchaseWithTotal(purchase,
                            purchase.totalAmount - purchaseItem.subtotal))
        /\ IF HasRow(stock, k)
             THEN /\ stock' = DecrementRow(stock, k, purchaseItem.quantity)
                  /\ Finish(p, Outcome("removeItemFromPurchase", "ok"))
             ELSE /\ stock' = stock
                  /\ Finish(p, Outcome("removeItemFromPurchase", "P2025"))
  /\ UNCHANGED <<sales, saleItems, saleReturns, nextId, loyalty, dbLog>>

(* the transaction: purchaseItem.delete, purchase.update,
   stock.update({decrement}); a missing row fails it as a whole *)
RemoveItemFromPurchaseWrite(p) ==
  /\ pc[p] = "removePurchaseItemWrite"
  /\ LET purchase == req[p].purchase
         purchaseItem == req[p].purchaseItem
         k == Key(purchaseItem.productId, purchase.branchId)
     IN IF PurchaseItemById(req[p].itemId) # {} /\ HasRow(stock, k)
          THEN /\ purchaseItems' = purchaseItems \ PurchaseItemById(req[p].itemId)
               /\ purchases' = UpdatePurchaseTotals(purchases, req[p].purchaseId,
                                 PurchaseWithTotal(purchase,
                                   purchase.totalAmount - purchaseItem.subtotal))
               /\ stock' = DecrementRow(stock, k, purchaseItem.quantity)
               /\ Finish(p, Outcome("removeItemFromPurchase", "ok"))
          ELSE /\ Finish(p, Outcome("removeItemFromPurchase", "P2025"))
               /\ UNCHANGED <<stock, dbPurchase>>
  /\ UNCHANGED <<sales, saleItems, saleReturns, nextId, loyalty, dbLog>>

PurchaseItemCreateInputs(prods, qtys) ==
  { [purchaseId |-> id, productId |-> pr, quantity |-> q, unitCost |-> c] :
      id \in PurchaseIds, pr \in prods, q \in qtys, c \in Costs }

(* PurchaseItemService.create: one purchaseItem.create; the foreign key
   purchase_items_purchase_id_fkey rejects an unknown purchase *)
PurchaseItemCreate(p, data) ==
  /\ pc[p] = "idle"
  /\ nextId.purchaseItem <= MaxPurchaseItems
  /\ IF data.purchaseId \in 1 .. Len(purchases)
       THEN /\ purchaseItems' = purchaseItems \cup
                 {[id |-> nextId.purchaseItem, purchaseId |-> data.purchaseId,
                   productId |-> data.productId, quantity |-> data.quantity,
                   unitCost |-> data.unitCost,
                   subtotal |-> data.unitCost * data.quantity]}
            /\ nextId' = [nextId EXCEPT !.purchaseItem = @ + 1]
            /\ Finish(p, [op |-> "purchaseItemCreate", outcome |-> "ok",
                          id |-> nextId.purchaseItem])
       ELSE /\ Finish(p, Outcome("purchaseItemCreate", "P2003"))
            /\ UNCHANGED <<purchaseItems, nextId>>
  /\ UNCHANGED <<stock, sales, saleItems, saleReturns, loyalty, purchases, dbLog>>

----------------------------------------------------------------------------
(* SaleService.updatePayment, remove, removeItemFromSale and
   SaleItemService.create *)

(* SaleStatus enum of the store *)
SaleStatuses == {"completed", "pending", "cancelled"}

(* the enum value a status literal of the service is stored as *)
StoredStatus(status) ==
  CASE status = "COMPLETED" -> "completed"
    [] status = "PENDING" -> "pending"
    [] status = "CANCELLED" -> "cancelled"
    [] OTHER -> "partial"

PaymentInputs == { 0 - 5, 0, 5, 10 }

Charges == {0, 5}

(* updateData.status of updatePayment *)
PaymentStatus(paidAmount, dueAmount) ==
  IF dueAmount = 0 THEN "COMPLETED"
  ELSE IF paidAmount > 0 THEN "PARTIAL"
  ELSE "PENDING"

(* prisma.sale.findUnique, dueAmount, the guard on paidAmount, updateData *)
UpdatePaymentFind(p, saleId, paidAmount) ==
  /\ pc[p] = "idle"
  /\ IF saleId \notin 1 .. Len(sales)
       THEN Finish(p, Outcome("updatePayment", "notFound"))
       ELSE LET dueAmount == sales[saleId].grandTotal - paidAmount
            IN IF paidAmount < 0 \/ paidAmount > sales[saleId].grandTotal
                 THEN Finish(p, Outcome("updatePayment", "invalidPayment"))
                 ELSE Goto(p, "updatePaymentWrite",
                           [op |-> "updatePayment", saleId |-> saleId,
                            paidAmount |-> paidAmount, dueAmount |-> dueAmount,
                            status |-> PaymentStatus(paidAmount, dueAmount)])
  /\ UNCHANGED <<dbSale, loyalty, dbPurchase, dbLog>>

(* prisma.sale.update({paidAmount, dueAmount, status}); a status that is no
   value of the enum fails the statement *)
UpdatePaymentWrite(p) ==
  /\ pc[p] = "updatePaymentWrite"
  /\ IF StoredStatus(req[p].status) \in SaleStatuses
       THEN /\ sales' = [sales EXCEPT ![req[p].saleId].paidAmount = req[p].paidAmount,
                                      ![req[p].saleId].dueAmount = req[p].dueAmount,
                                      ![req[p].saleId].status = StoredStatus(req[p].status)]
            /\ Finish(p, Outcome("updatePayment", "ok"))
       ELSE /\ Finish(p, Outcome("updatePayment", "invalidEnumValue"))
            /\ UNCHANGED sales
  /\ UNCHANGED <<stock, saleItems, saleReturns, nextId, loyalty, dbPurchase, dbLog>>

(* tx.stock.update({increment: item.quantity}) for each of the items *)
RECURSIVE RestoreItems(_, _, _)
RestoreItems(st, branchId, items) ==
  IF items = {} THEN st
  ELSE LET item == CHOOSE x \in items : TRUE
       IN RestoreItems(IncrementRow(st, Key(item.productId, branchId), item.quantity),
                       branchId, items \ {item})

(* the line items of a sale whose stock row exists *)
StockedItems(saleId) ==
  { it \in ItemsOfSale(saleId) : HasRow(stock, Key(it.productId, sales[saleId].branchId)) }

(* prisma.sale.findUnique of remove *)
SaleRemoveFind(p, saleId) ==
  /\ pc[p] = "idle"
  /\ saleId \in 1 .. Len(sales)
       => WithinMaxStock(RestoreItems(stock, sales[saleId].branchId, StockedItems(saleId)))
  /\ IF saleId \in 1 .. Len(sales)
       THEN Goto(p, "saleRemoveFindItems",
                 [op |-> "saleRemove", saleId |-> saleId, sale |-> sales[saleId],
                  saleItems |-> {}])
       ELSE Finish(p, Outcome("saleRemove", "notFound"))
  /\ UNCHANGED <<dbSale, loyalty, dbPurchase, dbLog>>

(* tx.saleItem.findMany({where: {saleId: id}}) *)
SaleRemoveFindItems(p) ==
  /\ pc[p] = "saleRemoveFindItems"
  /\ Goto(p, "saleRemoveWrite",
          [req[p] EXCEPT !.saleItems = { it \in saleItems : it.saleId = req[p].saleId }])
  /\ UNCHANGED <<dbSale, loyalty, dbPurchase, dbLog>>

(* the status remove leaves on the sale: data is empty, the line
   status: 'CANCELLED' is commented out *)
StatusAfterRemove(sale) == sale.status

(* the transaction of remove: the stock.update loop, tx.sale.update, commit *)
SaleRemoveWrite(p) ==
  /\ pc[p] = "saleRemoveWrite"
  /\ LET sale == req[p].sale
         keys == { Key(it.productId, sale.branchId) : it \in req[p].saleItems }
     IN IF keys \subseteq DOMAIN stock
          THEN /\ stock' = RestoreItems(stock, sale.branchId, req[p].saleItems)
               /\ sales' = [sales EXCEPT ![req[p].saleId].status =
                              StatusAfterRemove(sales[req[p].saleId])]
               /\ FinishNoting(p, Outcome("saleRemove", "ok"),
                               [op |-> "saleRemove", saleId |-> req[p].saleId])
          ELSE /\ Finish(p, Outcome("saleRemove", "P2025"))
               /\ UNCHANGED <<stock, sales>>
  /\ UNCHANGED <<saleItems, saleReturns, nextId, loyalty, dbPurchase, dbLog>>

SaleItemIds == 1 .. MaxSaleItems

SaleItemById(id) == { it \in saleItems : it.id = id }

(* prisma.sale.findUnique of removeItemFromSale *)
RemoveItemFromSaleFind(p, saleId, itemId) ==
  /\ pc[p] = "idle"
  /\ IF saleId \in 1 .. Len(sales)
       THEN Goto(p, "removeSaleItemFindItem",
                 [op |-> "removeItemFromSale", saleId |-> saleId, itemId |-> itemId,
                  sale |-> sales[saleId]])
       ELSE Finish(p, Outcome("removeItemFromSale", "notFound"))
  /\ UNCHANGED <<dbSale, loyalty, dbPurchase, dbLog>>

(* prisma.saleItem.findUnique and the guard on its saleId *)
RemoveItemFromSaleFindItem(p) ==
  /\ pc[p] = "removeSaleItemFindItem"
  /\ LET found == { it \in SaleItemById(req[p].itemId) : it.saleId = req[p].saleId }
     IN IF found = {}
          THEN Finish(p, Outcome("removeItemFromSale", "notFound"))
          ELSE \E saleItem \in found :
                 Goto(p, "removeSaleItemWrite",
                      [op |-> "removeItemFromSale", saleId |-> req[p].saleId,
                       itemId |-> req[p].itemId, sale |-> req[p].sale,
                       saleItem |-> saleItem])
  /\ UNCHANGED <<dbSale, loyalty, dbPurchase, dbLog>>

(* the transaction: saleItem.delete, sale.update, stock.update({increment});
   a missing row fails it as a whole *)
RemoveItemFromSaleWrite(p) ==
  /\ pc[p] = "removeSaleItemWrite"
  /\ LET sale == req[p].sale
         saleItem == req[p].saleItem
         k == Key(saleItem.productId, sale.branchId)
     IN IF SaleItemById(req[p].itemId) # {} /\ HasRow(stock, k)
          THEN /\ saleItems' = saleItems \ SaleItemById(req[p].itemId)
               /\ sales' = UpdateSaleTotals(sales, req[p].saleId,
                             SaleWithTotal(sale, sale.totalAmount - saleItem.subtotal))
               /\ stock' = IncrementRow(stock, k, saleItem.quantity)
               /\ Finish(p, Outcome("removeItemFromSale", "ok"))
          ELSE /\ Finish(p, Outcome("removeItemFromSale", "P2025"))
               /\ UNCHANGED <<stock, sales, saleItems>>
  /\ UNCHANGED <<saleReturns, nextId, loyalty, dbPurchase, dbLog>>

SaleItemCreateInputs(prods, qtys) ==
  { [saleId |-> id, productId |-> pr, quantity |-> q, unitPrice |-> u] :
      id \in SaleIds, pr \in prods, q \in qtys, u \in Prices }

(* SaleItemService.create: one saleItem.create; the foreign key
   sale_items_sale_id_fkey rejects an unknown sale *)
SaleItemCreate(p, data) ==
  /\ pc[p] = "idle"
  /\ nextId.saleItem <= MaxSaleItems
  /\ IF data.saleId \in 1 .. Len(sales)
       THEN /\ saleItems' = saleItems \cup
                 {[id |-> nextId.saleItem, saleId |-> data.saleId,
                   productId |-> data.productId, quantity |-> data.quantity,
                   unitPrice |-> data.unitPrice,
                   subtotal |-> data.unitPrice * data.quantity]}
            /\ nextId' = [nextId EXCEPT !.saleItem = @ + 1]
            /\ Finish(p, [op |-> "saleItemCreate", outcome |-> "ok",
                          id |-> nextId.saleItem])
       ELSE /\ Finish(p, Outcome("saleItemCreate", "P2003"))
            /\ UNCHANGED <<saleItems, nextId>>
  /\ UNCHANGED <<stock, sales, saleReturns, loyalty, dbPurchase, dbLog>>

----------------------------------------------------------------------------
(* InventoryLogService.create, remove; LoyaltyTransactionService.create,
   remove *)

InventoryLogInputs(prods) ==
  { [productId |-> pr, branchId |-> b, changeType |-> "adjustment",
     quantityChange |-> 1, previousStock |-> 0, newStock |-> 1] :
      pr \in prods, b \in Branches }

InventoryLogIds == 1 .. MaxLogs

InventoryLogById(id) == { e \in inventoryLogs : e.id = id }

(* prisma.inventoryLog.create *)
InventoryLogCreate(p, data) ==
  /\ pc[p] = "idle"
  /\ nextId.inventoryLog <= MaxLogs
  /\ inventoryLogs' = inventoryLogs \cup
       {[id |-> nextId.inventoryLog, productId |-> data.productId,
         branchId |-> data.branchId, changeType |-> data.changeType,
         quantityChange |-> data.quantityChange,
         previousStock |-> data.previousStock, newStock |-> data.newStock]}
  /\ nextId' = [nextId EXCEPT !.inventoryLog = @ + 1]
  /\ Finish(p, [op |-> "inventoryLogCreate", outcome |-> "ok",
                id |-> nextId.inventoryLog])
  /\ UNCHANGED <<stock, sales, saleItems, saleReturns, loyalty, dbPurchase,
                 loyaltyTransactions>>

(* prisma.inventoryLog.findUnique of remove *)
InventoryLogRemoveFind(p, id) ==
  /\ pc[p] = "idle"
  /\ IF InventoryLogById(id) = {}
       THEN Finish(p, Outcome("inventoryLogRemove", "notFound"))
       ELSE Goto(p, "inventoryLogDelete", [op |-> "inventoryLogRemove", id |-> id])
  /\ UNCHANGED <<dbSale, loyalty, dbPurchase, dbLog>>

(* prisma.inventoryLog.delete({where: {id}}) *)
InventoryLogRemoveDelete(p) ==
  /\ pc[p] = "inventoryLogDelete"
  /\ IF InventoryLogById(req[p].id) = {}
       THEN /\ Finish(p, Outcome("inventoryLogRemove", "P2025"))
            /\ UNCHANGED inventoryLogs
       ELSE /\ inventoryLogs' = inventoryLogs \ InventoryLogById(req[p].id)
            /\ Finish(p, Outcome("inventoryLogRemove", "ok"))
  /\ UNCHANGED <<dbSale, loyalty, dbPurchase, loyaltyTransactions>>

LoyaltyTransactionInputs ==
  { [customerId |-> c, type |-> "EARNED", points |-> 1, balanceAfter |-> 1] :
      c \in Customers }

LoyaltyTransactionIds == 1 .. MaxLogs

LoyaltyTransactionById(id) == { t \in loyaltyTransactions : t.id = id }

(* prisma.loyaltyTransaction.create *)
LoyaltyTransactionCreate(p, data) ==
  /\ pc[p] = "idle"
  /\ nextId.loyaltyTransaction <= MaxLogs
  /\ loyaltyTransactions' = loyaltyTransactions \cup
       {[id |-> nextId.loyaltyTransaction, customerId |-> data.customerId,
         type |-> data.type, points |-> data.points,
         balanceAfter |-> data.balanceAfter]}
  /\ nextId' = [nextId EXCEPT !.loyaltyTransaction = @ + 1]
  /\ Finish(p, [op |-> "loyaltyTransactionCreate", outcome |-> "ok",
                id |-> nextId.loyaltyTransaction])
  /\ UNCHANGED <<stock, sales, saleItems, saleReturns, loyalty, dbPurchase,
                 inventoryLogs>>

(* prisma.loyaltyTransaction.findUnique of remove *)
LoyaltyTransactionRemoveFind(p, id) ==
  /\ pc[p] = "idle"
  /\ IF LoyaltyTransactionById(id) = {}
       THEN Finish(p, Outcome("loyaltyTransactionRemove", "notFound"))
       ELSE Goto(p, "loyaltyTransactionDelete",
                 [op |-> "loyaltyTransactionRemove", id |-> id])
  /\ UNCHANGED <<dbSale, loyalty, dbPurchase, dbLog>>

(* prisma.loyaltyTransaction.delete({where: {id}}) *)
LoyaltyTransactionRemoveDelete(p) ==
  /\ pc[p] = "loyaltyTransactionDelete"
  /\ IF LoyaltyTransactionById(req[p].id) = {}
       THEN /\ Finish(p, Outcome("loyaltyTransactionRemove", "P2025"))
            /\ UNCHANGED loyaltyTransactions
       ELSE /\ loyaltyTransactions' =
                 loyaltyTransactions \ LoyaltyTransactionById(req[p].id)
            /\ Finish(p, Outcome("loyaltyTransactionRemove", "ok"))
  /\ UNCHANGED <<dbSale, loyalty, dbPurchase, inventoryLogs>>

----------------------------------------------------------------------------
(* stock.upsert under concurrent callers.  Prisma sends an upsert to the
   database as INSERT .. ON CONFLICT DO UPDATE only when the query has no
   nested read and the client version supports it; otherwise it runs a
   SELECT followed by an INSERT or an UPDATE, and the INSERT of a row that
   another caller created in between fails on the unique index. *)

(* stocks_product_id_branch_id_key *)
StocksProductIdBranchIdKey(st, k) == HasRow(st, k)

(* INSERT INTO stocks (product_id, branch_id, quantity) *)
InsertRow(st, k, n) == [x \in DOMAIN st \cup {k} |-> IF x = k THEN n ELSE st[x]]

(* StockService.increment: the upsert carries include: {product, branch}, so
   it is a SELECT, then a write *)
StockIncrementFind(p, data) ==
  LET k == Key(data.productId, data.branchId)
  IN /\ pc[p] = "idle"
     /\ Available(stock, k) + data.quantity <= MaxStock
     /\ Goto(p, "stockIncrementWrite",
             [op |-> "stockIncrement", data |-> data, found |-> HasRow(stock, k),
              quantity |-> Available(stock, k)])
     /\ UNCHANGED <<dbSale, loyalty, dbPurchase, dbLog>>

(* a write that stores the sum computed from the quantity the SELECT read *)
StockIncrementWriteFromRead(p) ==
  LET data == req[p].data
      k == Key(data.productId, data.branchId)
  IN /\ pc[p] = "stockIncrementWrite"
     /\ IF req[p].found \/ ~HasRow(stock, k)
          THEN /\ stock' = InsertRow(stock, k, req[p].quantity + data.quantity)
               /\ Finish(p, Outcome("stockIncrement", "ok"))
          ELSE /\ stock' = stock
               /\ Finish(p, Outcome("stockIncrement", "P2002"))
     /\ UNCHANGED <<sales, saleItems, saleReturns, nextId, loyalty, dbPurchase, dbLog>>

(* the UPDATE {quantity: {increment}} when the SELECT found the row, the
   INSERT otherwise *)
StockIncrementWrite(p) ==
  LET data == req[p].data
      k == Key(data.productId, data.branchId)
  IN /\ pc[p] = "stockIncrementWrite"
     /\ IF req[p].found
          THEN /\ stock' = IncrementRow(stock, k, data.quantity)
               /\ Finish(p, Outcome("stockIncrement", "ok"))
          ELSE IF StocksProductIdBranchIdKey(stock, k)
            THEN /\ stock' = stock
                 /\ Finish(p, Outcome("stockIncrement", "P2002"))
            ELSE /\ stock' = InsertRow(stock, k, data.quantity)
                 /\ Finish(p, Outcome("stockIncrement", "ok"))
     /\ UNCHANGED <<sales, saleItems, saleReturns, nextId, loyalty, dbPurchase, dbLog>>

(* PurchaseService.create up to the reads of its upserts: the keys of the
   request that have no stock row yet *)
PurchaseCreateRead(p, data) ==
  /\ pc[p] = "idle"
  /\ Len(purchases) < MaxPurchases
  /\ WithinMaxStock(IncrementItems(stock, data.branchId, data.items))
  /\ Goto(p, "purchaseCommit",
          [op |-> "purchaseCreate", data |-> data,
           absent |-> ItemKeys(data.branchId, data.items) \ DOMAIN stock])
  /\ UNCHANGED <<dbSale, loyalty, dbPurchase, dbLog>>

(* tx.purchase.create, the writes of the upserts and the commit.  A key that
   got its row since the read is updated in place by ON CONFLICT DO UPDATE,
   or fails the INSERT of a read-then-write upsert: either can happen. *)
PurchaseCreateCommit(p) ==
  /\ pc[p] = "purchaseCommit"
  /\ LET data == req[p].data
         written ==
           /\ purchases' = Append(purchases, NewPurchase(Len(purchases) + 1, data))
           /\ stock' = IncrementItems(stock, data.branchId, data.items)
           /\ Finish(p, [op |-> "purchaseCreate", outcome |-> "ok",
                         id |-> Len(purchases) + 1])
         failed ==
           /\ Finish(p, Outcome("purchaseCreate", "P2002"))
           /\ UNCHANGED <<stock, purchases>>
     IN IF PurchasesInvoiceNoKey(purchases, data.invoiceNo)
          THEN failed
          ELSE IF \E k \in req[p].absent : StocksProductIdBranchIdKey(stock, k)
            THEN written \/ failed
            ELSE written
  /\ UNCHANGED <<sales, saleItems, saleReturns, nextId, loyalty, purchaseItems, dbLog>>

----------------------------------------------------------------------------

Init ==
  /\ stock = << >>
  /\ sales = << >>
  /\ saleItems = {}
  /\ saleReturns = {}
  /\ loyalty = << >>
  /\ purchases = << >>
  /\ purchaseItems = {}
  /\ inventoryLogs = {}
  /\ loyaltyTransactions = {}
  /\ nextId = [saleItem |-> 1, saleReturn |-> 1, purchaseItem |-> 1,
               inventoryLog |-> 1, loyaltyTransaction |-> 1]
  /\ lastPurchase = NoPurchase
  /\ pc = [p \in Procs |-> "idle"]
  /\ req = [p \in Procs |-> NoRequest]
  /\ res = [p \in Procs |-> NoResult]

(* Two clients whose calls interleave statement by statement, on one product
   and with single-line sales. *)
Hot == {1}

Next ==
  \E p \in Procs :
    \/ \E data \in SaleInputs(Hot, Quantities, 1, Invoices, {NoCustomer}) : SaleCreateBegin(p, data)
    \/ SaleCheckItem(p)
    \/ SaleWrite(p)
    \/ \E data \in StockInputs(Hot, Quantities) : StockIncrement(p, data)
    \/ \E data \in StockInputs(Hot, Quantities) : StockDecrementFind(p, data)
    \/ StockDecrementUpdate(p)

Spec == Init /\ [][Next]_vars

(* One client: every call runs to its end before the next one starts. *)
Client == 1

SerialNext ==
  \/ \E data \in SaleInputs(Products, {1, MaxQty}, MaxItems, Invoices, {NoCustomer}) : SaleCreateBegin(Client, data)
  \/ SaleCheckItem(Client)
  \/ SaleWrite(Client)
  \/ \E data \in StockInputs(Products, {MaxQty}) : StockIncrement(Client, data)
  \/ \E data \in StockInputs(Products, {MaxQty}) : StockDecrementFind(Client, data)
  \/ StockDecrementUpdate(Client)

SerialSpec == Init /\ [][SerialNext]_vars

(* One client selling, adding line items and handling returns on one product. *)
ReturnNext ==
  \/ \E data \in StockInputs(Hot, {MaxQty}) : StockIncrement(Client, data)
  \/ \E data \in SaleInputs(Hot, {1}, 1, {"INV-100"}, {NoCustomer}) : SaleCreateBegin(Client, data)
  \/ SaleCheckItem(Client)
  \/ SaleWrite(Client)
  \/ \E saleId \in SaleIds, data \in AddItemInputs(Hot, Quantities) :
       AddItemFindSale(Client, saleId, data)
  \/ AddItemCheckStock(Client)
  \/ AddItemWrite(Client)
  \/ \E data \in ReturnInputs(Hot) : ReturnCreateCheck(Client, data)
  \/ ReturnCreateWrite(Client)
  \/ \E id \in ReturnIds, data \in ReturnUpdateInputs({MaxQty}, {25}) :
       ReturnFind(Client, "returnUpdate", id, data)
  \/ \E id \in ReturnIds, data \in ReturnStatusInputs :
       ReturnFind(Client, "returnUpdateStatus", id, data)
  \/ \E id \in ReturnIds : ReturnFind(Client, "returnRemove", id, NoData)
  \/ ReturnUpdateWrite(Client)
  \/ ReturnRemoveWrite(Client)

ReturnSpec == Init /\ [][ReturnNext]_vars

(* One client selling to customers and working on their loyalty accounts. *)
LoyaltySerialNext ==
  \/ \E data \in StockInputs(Hot, {MaxQty}) : StockIncrement(Client, data)
  \/ \E data \in SaleInputs(Hot, {1}, 1, Invoices, Customers \cup {NoCustomer}) :
       SaleCreateBegin(Client, data)
  \/ SaleCheckItem(Client)
  \/ SaleWrite(Client)
  \/ \E customerId \in CustomerIds : InitializeFind(Client, customerId)
  \/ InitializeCreate(Client)
  \/ \E customerId \in CustomerIds, points \in PointInputs :
       AddPointsBegin(Client, customerId, points)
  \/ AddPointsFind(Client)
  \/ AddPointsWrite(Client)
  \/ \E customerId \in CustomerIds, points \in PointInputs :
       RedeemPointsBegin(Client, customerId, points)
  \/ RedeemPointsFind(Client)
  \/ RedeemPointsWrite(Client)
  \/ \E customerId \in CustomerIds, points \in AdjustInputs :
       AdjustPointsFind(Client, customerId, points)
  \/ AdjustPointsWrite(Client)
  \/ \E saleId \in SaleIds : ProcessSalePointsFindSale(Client, saleId)
  \/ ProcessSalePointsFindLoyalty(Client)
  \/ ProcessSalePointsWrite(Client)
  \/ \E customerId \in CustomerIds : ResetAccountFind(Client, customerId)
  \/ ResetAccountWrite(Client)

LoyaltySerialSpec == Init /\ [][LoyaltySerialNext]_vars

Other == 2

(* Two callers on the loyalty account of one customer: the first sets the
   account up, adjusts and resets it, the second earns and redeems points
   while the first is between its read and its write. *)
LoyaltyRaceNext ==
  \/ \E data \in StockInputs(Hot, {1}) : StockIncrement(Client, data)
  \/ \E data \in SaleInputs(Hot, {1}, 1, {"INV-100"}, Customers) :
       SaleCreateBegin(Client, data)
  \/ SaleCheckItem(Client)
  \/ SaleWrite(Client)
  \/ \E customerId \in Customers : InitializeFind(Client, customerId)
  \/ InitializeCreate(Client)
  \/ \E customerId \in Customers, points \in {0 - 1, 1} :
       AdjustPointsFind(Client, customerId, points)
  \/ AdjustPointsWrite(Client)
  \/ \E customerId \in Customers : ResetAccountFind(Client, customerId)
  \/ ResetAccountWrite(Client)
  \/ \E customerId \in Customers : AddPointsBegin(Other, customerId, 1)
  \/ AddPointsFind(Other)
  \/ AddPointsWrite(Other)
  \/ \E customerId \in Customers : RedeemPointsBegin(Other, customerId, 1)
  \/ RedeemPointsFind(Other)
  \/ RedeemPointsWrite(Other)
  \/ \E saleId \in SaleIds : ProcessSalePointsFindSale(Other, saleId)
  \/ ProcessSalePointsFindLoyalty(Other)
  \/ ProcessSalePointsWrite(Other)

LoyaltyRaceSpec == Init /\ [][LoyaltyRaceNext]_vars

(* One client moving stock through a purchase, a sale, a return and a
   cancellation, adjusting and resetting a loyalty account, and using the two
   log services. *)
LogNext ==
  \/ \E data \in PurchaseInputs(Hot, {MaxQty}, 1, {"INV-100"}) : PurchaseCreate(Client, data)
  \/ \E data \in SaleInputs(Hot, {1}, 1, {"INV-100"}, {NoCustomer}) :
       SaleCreateBegin(Client, data)
  \/ SaleCheckItem(Client)
  \/ SaleWrite(Client)
  \/ \E saleId \in SaleIds, data \in AddItemInputs(Hot, {1}) :
       AddItemFindSale(Client, saleId, data)
  \/ AddItemCheckStock(Client)
  \/ AddItemWrite(Client)
  \/ \E data \in { d \in ReturnInputs(Hot) : d.quantity = 1 /\ d.refundAmount = 10 } :
       ReturnCreateCheck(Client, data)
  \/ ReturnCreateWrite(Client)
  \/ \E saleId \in SaleIds : SaleRemoveFind(Client, saleId)
  \/ SaleRemoveFindItems(Client)
  \/ SaleRemoveWrite(Client)
  \/ \E customerId \in Customers : InitializeFind(Client, customerId)
  \/ InitializeCreate(Client)
  \/ \E customerId \in Customers : AddPointsBegin(Client, customerId, 1)
  \/ AddPointsFind(Client)
  \/ AddPointsWrite(Client)
  \/ \E data \in InventoryLogInputs(Hot) : InventoryLogCreate(Client, data)
  \/ \E id \in InventoryLogIds : InventoryLogRemoveFind(Client, id)
  \/ InventoryLogRemoveDelete(Client)
  \/ \E data \in LoyaltyTransactionInputs : LoyaltyTransactionCreate(Client, data)
  \/ \E id \in LoyaltyTransactionIds : LoyaltyTransactionRemoveFind(Client, id)
  \/ LoyaltyTransactionRemoveDelete(Client)

LogSpec == Init /\ [][LogNext]_vars

(* One client selling, returning and asking validateReturn. *)
ValidateNext ==
  \/ \E data \in StockInputs(Hot, {MaxQty}) : StockIncrement(Client, data)
  \/ \E data \in SaleInputs(Hot, {1}, 1, {"INV-100"}, {NoCustomer}) : SaleCreateBegin(Client, data)
  \/ SaleCheckItem(Client)
  \/ SaleWrite(Client)
  \/ \E saleId \in SaleIds, data \in AddItemInputs(Hot, Quantities) :
       AddItemFindSale(Client, saleId, data)
  \/ AddItemCheckStock(Client)
  \/ AddItemWrite(Client)
  \/ \E data \in { d \in ReturnInputs(Hot) : d.refundAmount = 10 } :
       ReturnCreateCheck(Client, data)
  \/ ReturnCreateWrite(Client)
  \/ \E saleId \in SaleIds, productId \in Hot, quantity \in Quantities :
       ValidateReturn(Client, saleId, productId, quantity)

ValidateSpec == Init /\ [][ValidateNext]_vars

(* One client selling to a customer and crediting the points of the sale;
   processSalePoints is the only call here that earns points. *)
SalePointsNext ==
  \/ \E data \in StockInputs(Hot, {MaxQty}) : StockIncrement(Client, data)
  \/ \E data \in WithCharges(SaleInputs(Hot, {1, MaxQty}, 1, {"INV-100"},
                                        Customers \cup {NoCustomer}), Charges, {0}) :
       SaleCreateBegin(Client, data)
  \/ SaleCheckItem(Client)
  \/ SaleWrite(Client)
  \/ \E customerId \in CustomerIds : InitializeFind(Client, customerId)
  \/ InitializeCreate(Client)
  \/ \E customerId \in CustomerIds, points \in PointInputs :
       RedeemPointsBegin(Client, customerId, points)
  \/ RedeemPointsFind(Client)
  \/ RedeemPointsWrite(Client)
  \/ \E saleId \in SaleIds : ProcessSalePointsFindSale(Client, saleId)
  \/ ProcessSalePointsFindLoyalty(Client)
  \/ ProcessSalePointsWrite(Client)

SalePointsSpec == Init /\ [][SalePointsNext]_vars

(* Two callers bringing stock in through StockService.increment and through
   purchases, on one (product, branch) key. *)
InboundNext ==
  \E p \in Procs :
    \/ \E data \in StockInputs(Hot, {1, MaxQty}) : StockIncrementFind(p, data)
    \/ StockIncrementWrite(p)
    \/ \E data \in PurchaseInputs(Hot, {1, MaxQty}, 1, Invoices) : PurchaseCreateRead(p, data)
    \/ PurchaseCreateCommit(p)

InboundSpec == Init /\ [][InboundNext]_vars

(* One client purchasing one product, selling it and putting it back through
   returns, line-item removal and cancellation. *)
PutBackNext ==
  \/ \E data \in PurchaseInputs(Hot, {MaxQty}, 1, {"INV-100"}) :
       PurchaseCreate(Client, data)
  \/ \E data \in SaleInputs(Hot, {1}, 1, {"INV-100"}, {NoCustomer}) :
       SaleCreateBegin(Client, data)
  \/ SaleCheckItem(Client)
  \/ SaleWrite(Client)
  \/ \E saleId \in SaleIds, data \in AddItemInputs(Hot, {1}) :
       AddItemFindSale(Client, saleId, data)
  \/ AddItemCheckStock(Client)
  \/ AddItemWrite(Client)
  \/ \E saleId \in SaleIds, itemId \in SaleItemIds :
       RemoveItemFromSaleFind(Client, saleId, itemId)
  \/ RemoveItemFromSaleFindItem(Client)
  \/ RemoveItemFromSaleWrite(Client)
  \/ \E saleId \in SaleIds : SaleRemoveFind(Client, saleId)
  \/ SaleRemoveFindItems(Client)
  \/ SaleRemoveWrite(Client)
  \/ \E data \in { d \in ReturnInputs(Hot) : d.quantity = 1 /\ d.refundAmount = 10 } :
       ReturnCreateCheck(Client, data)
  \/ ReturnCreateWrite(Client)

PutBackSpec == Init /\ [][PutBackNext]_vars

(* Two callers moving the stock of one (product, branch) key in and out:
   sales and added line items, purchases, returns, increments, decrements. *)
MovementNext ==
  \E p \in Procs :
    \/ \E data \in SaleInputs(Hot, {1}, 1, {"INV-100"}, {NoCustomer}) : SaleCreateBegin(p, data)
    \/ SaleCheckItem(p)
    \/ SaleWrite(p)
    \/ \E data \in AddItemInputs(Hot, {1}) : AddItemFindSale(p, 1, data)
    \/ AddItemCheckStock(p)
    \/ AddItemWrite(p)
    \/ \E data \in PurchaseInputs(Hot, {MaxQty}, 1, {"INV-100"}) : PurchaseCreateRead(p, data)
    \/ PurchaseCreateCommit(p)
    \/ \E data \in { d \in ReturnInputs(Hot) :
                       d.saleId = 1 /\ d.quantity = 1 /\ d.refundAmount = 10 } :
         ReturnCreateCheck(p, data)
    \/ ReturnCreateWrite(p)
    \/ \E data \in StockInputs(Hot, {1}) : StockIncrementFind(p, data)
    \/ StockIncrementWrite(p)
    \/ \E data \in StockInputs(Hot, {1, MaxQty}) : StockDecrementFind(p, data)
    \/ StockDecrementUpdate(p)

MovementSpec == Init /\ [][MovementNext]_vars

(* One client buying, selling and editing the line items of purchases. *)
PurchaseNext ==
  \/ \E data \in PurchaseInputs(Hot, {1, MaxQty}, 1, Invoices) : PurchaseCreate(Client, data)
  \/ \E purchaseId \in PurchaseIds, data \in AddPurchaseItemInputs(Hot, {MaxQty}) :
       AddItemToPurchaseFind(Client, purchaseId, data)
  \/ AddItemToPurchaseWrite(Client)
  \/ \E purchaseId \in PurchaseIds, itemId \in PurchaseItemIds :
       RemoveItemFromPurchaseFind(Client, purchaseId, itemId)
  \/ RemoveItemFromPurchaseFindItem(Client)
  \/ RemoveItemFromPurchaseWrite(Client)
  \/ \E data \in PurchaseItemCreateInputs(Products \ Hot, {1}) :
       PurchaseItemCreate(Client, data)
  \/ \E data \in SaleInputs(Hot, {1, MaxQty}, 1, {"INV-100"}, {NoCustomer}) :
       SaleCreateBegin(Client, data)
  \/ SaleCheckItem(Client)
  \/ SaleWrite(Client)

PurchaseSpec == Init /\ [][PurchaseNext]_vars

(* One client running the life of a purchase and of a sale: create, line
   items added and removed through the header services and created directly,
   return, cancellation. *)
LedgerNext ==
  \/ \E data \in PurchaseInputs(Hot, {MaxQty}, 1, {"INV-100"}) :
       PurchaseCreate(Client, data)
  \/ \E purchaseId \in PurchaseIds, data \in AddPurchaseItemInputs(Hot, {1}) :
       AddItemToPurchaseFind(Client, purchaseId, data)
  \/ AddItemToPurchaseWrite(Client)
  \/ \E purchaseId \in PurchaseIds, itemId \in PurchaseItemIds :
       RemoveItemFromPurchaseFind(Client, purchaseId, itemId)
  \/ RemoveItemFromPurchaseFindItem(Client)
  \/ RemoveItemFromPurchaseWrite(Client)
  \/ \E data \in PurchaseItemCreateInputs(Products \ Hot, {1}) :
       PurchaseItemCreate(Client, data)
  \/ \E data \in SaleInputs(Hot, {1}, 1, {"INV-100"}, {NoCustomer}) :
       SaleCreateBegin(Client, data)
  \/ SaleCheckItem(Client)
  \/ SaleWrite(Client)
  \/ \E saleId \in SaleIds, data \in AddItemInputs(Hot, {1}) :
       AddItemFindSale(Client, saleId, data)
  \/ AddItemCheckStock(Client)
  \/ AddItemWrite(Client)
  \/ \E saleId \in SaleIds, itemId \in SaleItemIds :
       RemoveItemFromSaleFind(Client, saleId, itemId)
  \/ RemoveItemFromSaleFindItem(Client)
  \/ RemoveItemFromSaleWrite(Client)
  \/ \E data \in SaleItemCreateInputs(Products \ Hot, {1}) : SaleItemCreate(Client, data)
  \/ \E saleId \in SaleIds : SaleRemoveFind(Client, saleId)
  \/ SaleRemoveFindItems(Client)
  \/ SaleRemoveWrite(Client)
  \/ \E data \in { d \in ReturnInputs(Hot) : d.quantity = 1 /\ d.refundAmount = 10 } :
       ReturnCreateCheck(Client, data)
  \/ ReturnCreateWrite(Client)

LedgerSpec == Init /\ [][LedgerNext]_vars

(* One client running the operations that write the totals of a purchase or
   of a sale: create, line items added and removed, payment. *)
TotalsNext ==
  \/ \E data \in WithCharges(PurchaseInputs(Hot, {MaxQty}, 1, {"INV-100"}), Charges, Charges) :
       PurchaseCreate(Client, data)
  \/ \E purchaseId \in PurchaseIds, data \in AddPurchaseItemInputs(Hot, {1}) :
       AddItemToPurchaseFind(Client, purchaseId, data)
  \/ AddItemToPurchaseWrite(Client)
  \/ \E purchaseId \in PurchaseIds, itemId \in PurchaseItemIds :
       RemoveItemFromPurchaseFind(Client, purchaseId, itemId)
  \/ RemoveItemFromPurchaseFindItem(Client)
  \/ RemoveItemFromPurchaseWrite(Client)
  \/ \E data \in WithCharges(SaleInputs(Hot, {1}, 1, {"INV-100"}, {NoCustomer}), Charges, Charges) :
       SaleCreateBegin(Client, data)
  \/ SaleCheckItem(Client)
  \/ SaleWrite(Client)
  \/ \E saleId \in SaleIds, data \in AddItemInputs(Hot, {1}) :
       AddItemFindSale(Client, saleId, data)
  \/ AddItemCheckStock(Client)
  \/ AddItemWrite(Client)
  \/ \E saleId \in SaleIds, itemId \in SaleItemIds :
       RemoveItemFromSaleFind(Client, saleId, itemId)
  \/ RemoveItemFromSaleFindItem(Client)
  \/ RemoveItemFromSaleWrite(Client)
  \/ \E saleId \in SaleIds, paidAmount \in PaymentInputs :
       UpdatePaymentFind(Client, saleId, paidAmount)
  \/ UpdatePaymentWrite(Client)

TotalsSpec == Init /\ [][TotalsNext]_vars

----------------------------------------------------------------------------
(* Claims *)

RowsNonNegative(st) == \A k \in DOMAIN st : st[k] >= 0

(* C1: in every reachable state, under any interleaving of the calls, the
   quantity of every (product, branch) stock row is >= 0. *)
C1_StockNeverNegative == RowsNonNegative(stock)

(* the quantity a sale request takes from key k *)
RECURSIVE Demand(_, _, _)
Demand(items, branchId, k) ==
  IF items = <<>> THEN 0
  ELSE (IF Key(Head(items).productId, branchId) = k THEN Head(items).quantity ELSE 0)
       + Demand(Tail(items), branchId, k)

(* p has passed stock validation and its transaction will commit *)
SaleWillCommit(p) ==
  /\ pc[p] = "saleWrite"
  /\ ~InvoiceTaken(sales, req[p].data.invoiceNo)
  /\ ItemKeys(req[p].data.branchId, req[p].data.items) \subseteq DOMAIN stock

(* C2: two sale creations that run concurrently on one (product, branch) never
   both succeed when their combined quantity exceeds the stock (stock 5, two
   sales of 3: one fails, the stock ends at 2). *)
C2_ConcurrentSalesWithinStock ==
  \A p \in Procs : \A q \in Procs \ {p} :
    (SaleWillCommit(p) /\ SaleWillCommit(q)
       /\ req[p].data.invoiceNo # req[q].data.invoiceNo)
    => \A k \in DOMAIN stock :
         Demand(req[p].data.items, req[p].data.branchId, k)
           + Demand(req[q].data.items, req[q].data.branchId, k) <= stock[k]

InSaleCreate(p) == pc[p] \in {"saleCheck", "saleWrite"}

(* C3: a createSale that fails stock validation for one of its line items has
   written nothing: from the start of the call to the failure, every stock
   quantity, the sales and the sale items are what they were before the call. *)
C3_FailedValidationWritesNothing ==
  [][(pc[Client] = "saleCheck" \/ pc'[Client] = "saleCheck")
       => UNCHANGED <<stock, sales, saleItems>>]_vars

(* a two-line sale whose first line was in stock failed on its second line *)
C3_Witness ==
  /\ res[Client].op = "saleCreate"
  /\ res[Client].outcome = "insufficientStock"
  /\ res[Client].line = 2

(* the step in which the client's createSale returns or throws *)
SaleCreateEnds == InSaleCreate(Client) /\ pc'[Client] = "idle"

(* C7 as stated: a createSale whose invoiceNo is that of a persisted sale fails
   with the unique-constraint error and leaves stock and sales unchanged. *)
C7_DuplicateAlwaysP2002 ==
  [][(SaleCreateEnds /\ InvoiceTaken(sales, req[Client].data.invoiceNo))
       => (res'[Client].outcome = "P2002" /\ stock' = stock /\ sales' = sales)]_vars

(* C7 amended: such a call fails and leaves stock and sales unchanged; the
   failure is the unique-constraint error when every line item passed stock
   validation, and the insufficient-stock error of the first failing line
   otherwise. *)
C7_DuplicateFailsUnchanged ==
  [][(SaleCreateEnds /\ InvoiceTaken(sales, req[Client].data.invoiceNo))
       => /\ stock' = stock /\ sales' = sales
          /\ res'[Client].outcome =
               IF pc[Client] = "saleWrite" THEN "P2002" ELSE "insufficientStock"]_vars

C7_Witness ==
  /\ res[Client].op = "saleCreate"
  /\ res[Client].outcome = "P2002"
  /\ sales # << >>

(* C8: with an unused invoice number, a createSale with one line item of
   quantity q on a key whose stock is s (no row: 0) succeeds iff q <= s and
   leaves s - q; when it fails the stock is unchanged. *)
C8_SingleLineSale ==
  [][(SaleCreateEnds /\ Len(req[Client].data.items) = 1
        /\ ~InvoiceTaken(sales, req[Client].data.invoiceNo))
       => LET d == req[Client].data
              k == Key(d.items[1].productId, d.branchId)
              q == d.items[1].quantity
              s == Available(stock, k)
          IN IF q <= s
               THEN /\ res'[Client].outcome = "ok"
                    /\ stock' = [stock EXCEPT ![k] = s - q]
                    /\ Len(sales') = Len(sales) + 1
               ELSE /\ res'[Client].outcome = "insufficientStock"
                    /\ stock' = stock /\ sales' = sales]_vars

(* a sale has just taken the whole stock of a key *)
C8_Witness ==
  /\ res[Client].op = "saleCreate"
  /\ res[Client].outcome = "ok"
  /\ \E k \in DOMAIN stock : stock[k] = 0

RECURSIVE SumQuantity(_)
SumQuantity(rows) ==
  IF rows = {} THEN 0
  ELSE LET r == CHOOSE x \in rows : TRUE
       IN r.quantity + SumQuantity(rows \ {r})

(* the line items of a (sale, product) pair, and its returns that count *)
LinesOf(saleId, productId) ==
  { it \in saleItems : it.saleId = saleId /\ it.productId = productId }

CountedReturns(saleId, productId) ==
  { r \in saleReturns :
      r.saleId = saleId /\ r.productId = productId /\ r.status # "rejected" }

(* C4: after any sequence of return create, update, status change and delete,
   for every (sale, product) pair the quantities of its non-rejected returns
   sum to at most the quantity sold on the pair's line items. *)
C4_ReturnsWithinSold ==
  \A saleId \in SaleIds : \A productId \in Products :
    SumQuantity(CountedReturns(saleId, productId))
      <= SumQuantity(LinesOf(saleId, productId))

(* C10: every persisted return has refundAmount <= quantity x unitPrice of a
   line item of its (sale, product) pair, after any sequence of return create
   and update. *)
C10_RefundWithinLineValue ==
  \A r \in saleReturns :
    \E saleItem \in LinesOf(r.saleId, r.productId) :
      r.refundAmount <= MaxRefund(saleItem, r.quantity)

BalanceIsEarnedLessRedeemed(row) ==
  row.pointsBalance = row.totalEarned - row.totalRedeemed

(* C5: for every loyalty account, pointsBalance = totalEarned - totalRedeemed
   after every operation of any sequence of initialize, addPoints,
   redeemPoints, adjustPoints, processSalePoints and resetAccount. *)
C5_BalanceIsEarnedLessRedeemed ==
  \A c \in DOMAIN loyalty : BalanceIsEarnedLessRedeemed(loyalty[c])

(* an account that earned points has just been reset *)
C5_Witness ==
  /\ res[Client] = Outcome("resetAccount", "ok")
  /\ \E c \in DOMAIN loyalty :
       loyalty[c].totalEarned > 0 /\ loyalty[c].totalRedeemed = loyalty[c].totalEarned

(* C6: pointsBalance >= 0 for every loyalty account in every reachable
   state, adjustPoints with a negative delta included. *)
C6_BalanceNeverNegative ==
  \A c \in DOMAIN loyalty : loyalty[c].pointsBalance >= 0

(* the step in which the client's redeemPoints, past its argument check,
   returns or throws *)
RedeemPointsEnds ==
  pc[Client] \in {"redeemPointsFind", "redeemPointsWrite"} /\ pc'[Client] = "idle"

(* C9: redeemPoints(customer, points) with points > 0 on an existing account
   fails with the insufficient-points error and leaves the account unchanged
   when pointsBalance < points; otherwise pointsBalance goes down by points,
   totalRedeemed up by points and totalEarned stays. *)
C9_RedeemPoints ==
  [][/\ (pc[Client] = "redeemPointsFind" /\ pc'[Client] # "idle") => loyalty' = loyalty
     /\ (RedeemPointsEnds /\ HasAccount(loyalty, req[Client].customerId))
          => LET c == req[Client].customerId
                 points == req[Client].points
                 row == loyalty[c]
             IN IF row.pointsBalance < points
                  THEN /\ res'[Client] = Outcome("redeemPoints", "insufficientPoints")
                       /\ loyalty' = loyalty
                  ELSE /\ res'[Client] = Outcome("redeemPoints", "ok")
                       /\ loyalty' = [loyalty EXCEPT ![c] =
                            [pointsBalance |-> row.pointsBalance - points,
                             totalEarned |-> row.totalEarned,
                             totalRedeemed |-> row.totalRedeemed + points]]]_vars

(* the whole balance of an account has just been redeemed *)
C9_Witness ==
  /\ res[Client] = Outcome("redeemPoints", "ok")
  /\ \E c \in DOMAIN loyalty :
       loyalty[c].pointsBalance = 0 /\ loyalty[c].totalRedeemed = MaxPoints

(* the step in which the client's sale create commits or fails at its write *)
SaleWriteEnds == pc[Client] = "saleWrite" /\ pc'[Client] = "idle"

(* two item lists name the same products and quantities, line by line *)
SameLines(a, b) ==
  /\ Len(a) = Len(b)
  /\ \A i \in 1 .. Len(a) :
       a[i].productId = b[i].productId /\ a[i].quantity = b[i].quantity

(* C11: a successful purchase of quantity Q followed immediately by a
   successful sale of Q on the same (product, branch) leaves the stock row at
   the level it had before the purchase (0 when there was no row). *)
C11_PurchaseThenSale ==
  [][(/\ SaleWriteEnds
      /\ lastPurchase.op = "purchaseCreate"
      /\ req[Client].data.branchId = lastPurchase.branchId
      /\ SameLines(req[Client].data.items, lastPurchase.items)
      /\ res'[Client].outcome = "ok")
       => /\ \A k \in ItemKeys(lastPurchase.branchId, lastPurchase.items) :
               HasRow(stock', k) /\ stock'[k] = Available(lastPurchase.before, k)
          /\ \A k \in DOMAIN lastPurchase.before \ ItemKeys(lastPurchase.branchId,
                                                            lastPurchase.items) :
               HasRow(stock', k) /\ stock'[k] = lastPurchase.before[k]]_vars

(* the only purchase made created the stock row and the only sale, just
   committed, has emptied it again *)
C11_Witness ==
  /\ res[Client].op = "saleCreate" /\ res[Client].outcome = "ok"
  /\ Len(purchases) = 1 /\ Len(sales) = 1
  /\ nextId.purchaseItem = 1
  /\ \E k \in DOMAIN stock : stock[k] = 0

(* the step in which removeItemFromPurchase runs its transaction *)
RemoveItemFromPurchaseEnds ==
  pc[Client] = "removePurchaseItemWrite" /\ pc'[Client] = "idle"

(* C16: removeItemFromPurchase decrements the stock only when the result is
   not negative; otherwise it fails with the insufficient-stock error and
   leaves purchase header, line items and stock unchanged. *)
C16_RemovalKeepsStock ==
  [][(RemoveItemFromPurchaseEnds
        /\ HasRow(stock, Key(req[Client].purchaseItem.productId,
                             req[Client].purchase.branchId)))
       => LET item == req[Client].purchaseItem
              k == Key(item.productId, req[Client].purchase.branchId)
          IN IF stock[k] - item.quantity >= 0
               THEN /\ res'[Client].outcome = "ok"
                    /\ stock' = DecrementRow(stock, k, item.quantity)
               ELSE /\ res'[Client].outcome = "insufficientStock"
                    /\ UNCHANGED <<stock, purchases, purchaseItems>>]_vars

(* C12: createPurchase, createSale, adding and removing a line item of a
   purchase or a sale, the cancellation of a sale and createReturn each write
   all of their rows or none: a call that ends in an error has changed no
   table. *)
C12_FailureWritesNothing ==
  [][res'[Client].outcome # "ok" => UNCHANGED <<dbSale, dbPurchase>>]_vars

(* removeItemFromPurchase has failed on the missing stock row of a line item
   that is still there *)
C12_Witness ==
  /\ res[Client] = Outcome("removeItemFromPurchase", "P2025")
  /\ \E it \in purchaseItems :
       ~HasRow(stock, Key(it.productId, purchases[it.purchaseId].branchId))

(* the rows are one line item per requested item, with its product and
   quantity *)
OneRowPerItem(rows, items) ==
  /\ Cardinality(rows) = Len(items)
  /\ \A i \in 1 .. Len(items) :
       \E row \in rows :
         row.productId = items[i].productId /\ row.quantity = items[i].quantity

(* C13: after a successful createSale or createPurchase the new header owns
   exactly one line item per requested item, with the requested productId
   and quantity, written in the same transaction. *)
C13_HeaderOwnsRequestedItems ==
  [][/\ (SaleWriteEnds /\ res'[Client].outcome = "ok")
          => OneRowPerItem({ it \in saleItems' : it.saleId = res'[Client].id },
                           req[Client].data.items)
     /\ (pc[Client] = "idle" /\ res'[Client].op = "purchaseCreate"
           /\ res'[Client].outcome = "ok")
          => OneRowPerItem({ it \in purchaseItems' : it.purchaseId = res'[Client].id },
                           lastPurchase'.items)]_vars

(* the step in which the transaction of SaleService.remove commits *)
SaleRemoveCommits ==
  pc[Client] = "saleRemoveWrite" /\ res'[Client] = Outcome("saleRemove", "ok")

(* C14: cancelling a sale adds the quantity of each of its line items back
   to the stock and sets the status of the sale to cancelled, so that the
   stock taken by createSale is back after the cancellation. *)
C14_CancelRestoresStock ==
  [][SaleRemoveCommits
       => LET saleId == req[Client].saleId
          IN /\ sales'[saleId].status = "cancelled"
             /\ stock' = RestoreItems(stock, sales[saleId].branchId, ItemsOfSale(saleId))
             /\ sales[saleId].totalAmount > 0 => stock' # stock]_vars

(* the step in which SaleReturnService.remove runs its transaction *)
ReturnRemoveEnds == pc[Client] = "returnRemove" /\ pc'[Client] = "idle"

(* C15: deleting a sale return takes the quantity of the return off the
   stock in the same transaction, and fails with the insufficient-stock
   error, return and stock unchanged, when the stock is lower than that. *)
C15_ReturnDeleteTakesStock ==
  [][(ReturnRemoveEnds /\ ReturnById(req[Client].id) # {})
       => LET r == CHOOSE x \in ReturnById(req[Client].id) : TRUE
              k == Key(r.productId, sales[r.saleId].branchId)
          IN IF Available(stock, k) >= r.quantity
               THEN /\ res'[Client].outcome = "ok"
                    /\ saleReturns' = saleReturns \ {r}
                    /\ stock' = DecrementRow(stock, k, r.quantity)
               ELSE /\ res'[Client].outcome = "insufficientStock"
                    /\ UNCHANGED <<saleReturns, stock>>]_vars

(* C17: updatePayment(saleId, paidAmount) with 0 <= paidAmount <= grandTotal
   stores paidAmount, dueAmount = grandTotal - paidAmount and the status
   completed, partial or pending that the payment amounts to; with any other
   paidAmount it fails and leaves the sale unchanged. *)
C17_UpdatePayment ==
  [][/\ res'[Client] = Outcome("updatePayment", "invalidPayment") => sales' = sales
     /\ pc[Client] = "updatePaymentWrite"
          => LET saleId == req[Client].saleId
                 paidAmount == req[Client].paidAmount
                 grandTotal == sales[saleId].grandTotal
                 StatusOfPayment == IF paidAmount = 0 THEN "pending"
                                    ELSE IF paidAmount < grandTotal THEN "partial"
                                    ELSE "completed"
             IN /\ 0 <= paidAmount /\ paidAmount <= grandTotal
                /\ res'[Client] = Outcome("updatePayment", "ok")
                /\ sales' = [sales EXCEPT
                     ![saleId].paidAmount = paidAmount,
                     ![saleId].dueAmount = grandTotal - paidAmount,
                     ![saleId].status = StatusOfPayment]]_vars

(* C19: every sale has grandTotal = totalAmount - discount + tax and
   dueAmount = grandTotal - paidAmount, and every purchase has
   grandTotal = totalAmount - discount + tax, after any sequence of create,
   updatePayment, addLineItem and removeLineItem. *)
C19_TotalsAgree ==
  /\ \A i \in 1 .. Len(sales) :
       /\ sales[i].grandTotal = sales[i].totalAmount - sales[i].discount + sales[i].tax
       /\ sales[i].dueAmount = sales[i].grandTotal - sales[i].paidAmount
  /\ \A i \in 1 .. Len(purchases) :
       purchases[i].grandTotal =
         purchases[i].totalAmount - purchases[i].discount + purchases[i].tax

(* a payment has just been stored on a discounted sale that had a line item
   added and still has an amount due, next to a purchase with discount and
   tax that had a line item added *)
C19_Witness ==
  /\ res[Client] = Outcome("updatePayment", "ok")
  /\ \E i \in 1 .. Len(sales) :
       /\ sales[i].discount > 0 /\ sales[i].tax = 0
       /\ ItemsOfSale(i) # {}
       /\ sales[i].dueAmount > 0
  /\ \E i \in 1 .. Len(purchases) :
       /\ purchases[i].discount > 0 /\ purchases[i].tax > 0
       /\ \E it \in purchaseItems : it.purchaseId = i

RECURSIVE SumSubtotal(_)
SumSubtotal(rows) ==
  IF rows = {} THEN 0
  ELSE LET r == CHOOSE x \in rows : TRUE
       IN r.subtotal + SumSubtotal(rows \ {r})

(* C20: the totalAmount of every purchase and of every sale equals the sum
   of the subtotals of its current line items, after any sequence of
   operations, line items created, updated or deleted directly included. *)
C20_TotalIsSumOfItems ==
  /\ \A i \in 1 .. Len(sales) : sales[i].totalAmount = SumSubtotal(ItemsOfSale(i))
  /\ \A i \in 1 .. Len(purchases) :
       purchases[i].totalAmount =
         SumSubtotal({ it \in purchaseItems : it.purchaseId = i })

(* C18: adjustPoints or resetAccount interleaved with addPoints,
   redeemPoints or processSalePoints loses no update: once every call has
   returned, each account holds the values of some serial execution of the
   calls, in which pointsBalance = totalEarned - totalRedeemed. *)
C18_NoLostUpdate ==
  (\A p \in Procs : pc[p] = "idle")
    => \A c \in DOMAIN loyalty : BalanceIsEarnedLessRedeemed(loyalty[c])

(* C21: every step of a purchase, a sale, a sale cancellation or a sale
   return that changes the quantity of a stock row appends, in the same
   step, exactly one inventory log entry for that row, with quantityChange
   the signed delta and previousStock and newStock the quantities stored
   before and after it. *)
C21_MovementIsLogged ==
  [][\A k \in DOMAIN stock' :
       Available(stock', k) # Available(stock, k)
         => LET appended == { e \in inventoryLogs' \ inventoryLogs :
                                e.productId = k[1] /\ e.branchId = k[2] }
            IN /\ Cardinality(appended) = 1
               /\ \A e \in appended :
                    /\ e.previousStock = Available(stock, k)
                    /\ e.newStock = stock'[k]
                    /\ e.quantityChange = e.newStock - e.previousStock]_vars

(* C22: no step updates or deletes a loyalty transaction or an inventory log
   entry: the entries that exist before a step exist after it, with the
   fields they were written with. *)
C22_LogsOnlyGrow ==
  [][/\ inventoryLogs \subseteq inventoryLogs'
     /\ loyaltyTransactions \subseteq loyaltyTransactions']_vars

(* C23: validateReturn reports isValid = TRUE exactly when the quantity
   guard of createReturn accepts the quantity in the same state, with
   availableToReturn the sold quantity less the quantities of the prior
   returns of the (sale, product) that were not rejected, and it changes no
   state. *)
C23_ValidateAgreesWithCreate ==
  [][(res'[Client].op = "validateReturn" /\ res'[Client].outcome = "ok")
       => LET r == res'[Client]
              saleItem == [quantity |-> r.soldQuantity, unitPrice |-> 0]
              data == [quantity |-> r.quantity, refundAmount |-> 0]
              prior == { x \in saleReturns :
                           /\ x.saleId = r.saleId /\ x.productId = r.productId
                           /\ x.status # "rejected" }
          IN /\ r.isValid <=> (ReturnGuard(saleItem, data) = "ok")
             /\ r.availableToReturn = r.soldQuantity - SumQuantity(prior)
             /\ UNCHANGED <<dbSale, loyalty, dbPurchase, dbLog>>]_vars

(* C24: a successful processSalePoints for a sale with a customer adds
   floor(grandTotal x 0.1) to pointsBalance and to totalEarned of the
   customer's account, which it first creates with zero balances when there
   is none; it changes no balance when that value is 0, and a repeated call
   for the same sale credits the points again. *)
C24_SalePointsCredited ==
  [][(pc[Client] = "processSalePointsWrite" /\ res'[Client].outcome = "ok")
       => LET c == req[Client].customerId
              points == req[Client].grandTotal \div 10
              before == IF HasAccount(loyalty, c) THEN loyalty[c] ELSE NewLoyalty
          IN /\ res'[Client].pointsEarned = points
             /\ DOMAIN loyalty' = DOMAIN loyalty \cup {c}
             /\ loyalty'[c] = [pointsBalance |-> before.pointsBalance + points,
                               totalEarned |-> before.totalEarned + points,
                               totalRedeemed |-> before.totalRedeemed]
             /\ \A x \in DOMAIN loyalty \ {c} : loyalty'[x] = loyalty[x]]_vars

(* the only sale, of grandTotal 10, has just been credited for the second
   time *)
C24_Witness ==
  /\ res[Client].op = "processSalePoints" /\ res[Client].outcome = "ok"
  /\ Len(sales) = 1 /\ sales[1].grandTotal = 10 /\ sales[1].customerId \in Customers
  /\ loyalty[sales[1].customerId].totalEarned = 2

(* C25: totalEarned and totalRedeemed of a loyalty account never decrease
   in any step of addPoints, redeemPoints, adjustPoints, processSalePoints
   or resetAccount, and both are >= 0 in every state. *)
C25_TotalsNeverDecrease ==
  [][\A c \in DOMAIN loyalty :
       /\ loyalty'[c].totalEarned >= loyalty[c].totalEarned
       /\ loyalty'[c].totalRedeemed >= loyalty[c].totalRedeemed
       /\ loyalty'[c].totalEarned >= 0
       /\ loyalty'[c].totalRedeemed >= 0]_vars

(* the call of p is an inbound movement about to write *)
InboundWrites(p) == pc[p] \in {"stockIncrementWrite", "purchaseCommit"} /\ pc'[p] = "idle"

(* the purchase of p carries an invoice number that is taken *)
PurchaseInvoiceTaken(p) ==
  pc[p] = "purchaseCommit" /\ PurchasesInvoiceNoKey(purchases, req[p].data.invoiceNo)

(* the key and the quantity the inbound movement of p is to move *)
InboundKey(p) ==
  IF pc[p] = "stockIncrementWrite"
    THEN Key(req[p].data.productId, req[p].data.branchId)
    ELSE Key(req[p].data.items[1].productId, req[p].data.branchId)

InboundQuantity(p) ==
  IF pc[p] = "stockIncrementWrite" THEN req[p].data.quantity
  ELSE req[p].data.items[1].quantity

(* C26: there is one stock entry per (product, branch): every inbound
   movement that completes creates the entry of its key with the moved
   quantity when there is none, and adds to the entry in place when there
   is one, also when it runs concurrently with another first movement on
   the key. *)
C26_EveryMovementLands ==
  [][\A p \in Procs :
       InboundWrites(p)
         => /\ res'[p].outcome = "ok" \/ PurchaseInvoiceTaken(p)
            /\ res'[p].outcome = "ok"
                 => stock' = InsertRow(stock, InboundKey(p),
                                       Available(stock, InboundKey(p)) + InboundQuantity(p))]_vars

(* the line items of the request name some product more than once *)
RepeatsProduct(items) ==
  \E i, j \in 1 .. Len(items) : i # j /\ items[i].productId = items[j].productId

(* C27: a createSale whose line items name a product more than once is
   accepted only if the stock of each of its keys covers the sum of the
   quantities of the items on that key, and it leaves no stock negative. *)
C27_RepeatedProductCovered ==
  [][(SaleWriteEnds /\ RepeatsProduct(req[Client].data.items)
        /\ res'[Client].outcome = "ok")
       => \A k \in ItemKeys(req[Client].data.branchId, req[Client].data.items) :
            /\ Demand(req[Client].data.items, req[Client].data.branchId, k)
                 <= Available(stock, k)
            /\ stock'[k] >= 0]_vars

(* C28: cancelling a sale again, right after its cancellation, leaves
   every stock quantity unchanged: the stock of the line items is restored
   once only. *)
C28_SecondCancelKeepsStock ==
  [][(SaleRemoveCommits /\ lastPurchase.op = "saleRemove"
        /\ lastPurchase.saleId = req[Client].saleId)
       => stock' = stock]_vars

(* the quantity the purchases brought in: their items cost UnitCost each and
   carry no discount and no tax *)
UnitCost == CHOOSE c \in Costs : TRUE

RECURSIVE PurchasedQuantity(_)
PurchasedQuantity(ps) ==
  IF ps = <<>> THEN 0
  ELSE Head(ps).totalAmount \div UnitCost + PurchasedQuantity(Tail(ps))

(* C29: returns, line-item removal and cancellation put back into stock at
   most what the sales took out of it: with purchases of one product as the
   only other movement, the stock of the product never exceeds the quantity
   purchased. *)
C29_PutBackWithinTaken ==
  \A k \in DOMAIN stock : stock[k] <= PurchasedQuantity(purchases)

(* the write of p's stock movement commits in this step *)
MovementCommits(p) ==
  /\ pc[p] \in {"saleWrite", "addItemWrite", "decrementUpdate", "purchaseCommit",
                "returnWrite", "stockIncrementWrite"}
  /\ pc'[p] = "idle"
  /\ res'[p].outcome = "ok"

(* the quantity the movement of p brings to key k: positive for purchases,
   returns and increments, negative for sales and decrements *)
Moved(p, k) ==
  CASE pc[p] = "saleWrite" ->
         0 - Demand(req[p].data.items, req[p].data.branchId, k)
    [] pc[p] = "purchaseCommit" ->
         Demand(req[p].data.items, req[p].data.branchId, k)
    [] pc[p] = "addItemWrite" ->
         IF k = Key(req[p].data.productId, req[p].sale.branchId)
           THEN 0 - req[p].data.quantity ELSE 0
    [] pc[p] = "returnWrite" ->
         IF k = Key(req[p].data.productId, req[p].branchId)
           THEN req[p].data.quantity ELSE 0
    [] pc[p] = "stockIncrementWrite" ->
         IF k = Key(req[p].data.productId, req[p].data.branchId)
           THEN req[p].data.quantity ELSE 0
    [] pc[p] = "decrementUpdate" ->
         IF k = Key(req[p].data.productId, req[p].data.branchId)
           THEN 0 - req[p].data.quantity ELSE 0

(* C30: no stock update is lost.  Every step changes the quantity of every
   (product, branch) key by exactly the quantity of the movement that commits
   in it, counted from the quantity the key has at the commit, and by nothing
   when no movement commits; so the quantity is always the initial one plus
   the successful purchases, returns and increments minus the successful
   sales and decrements, however the calls interleave. *)
C30_NoUpdateLost ==
  [][\A pr \in Products, b \in Branches :
       LET k == Key(pr, b)
       IN Available(stock', k) - Available(stock, k) =
            IF \E p \in Procs : MovementCommits(p)
              THEN Moved(CHOOSE p \in Procs : MovementCommits(p), k)
              ELSE 0]_vars

(* a sale and a decrement that each saw enough stock have both committed,
   and the stock carries both *)
C30_Witness ==
  /\ res[Client].op = "saleCreate" /\ res[Client].outcome = "ok"
  /\ res[Other] = Outcome("stockDecrement", "ok")
  /\ \E k \in DOMAIN stock : stock[k] < 0

====
